---- MODULE Spec2Model ----
(***************************************************************************)
(* A model of mcp-db: the SQL guard (src/src/sqlGuard.ts), the parameter   *)
(* binders and driver dispatch (src/src/db.ts) and the two transports      *)
(* (src/src/routes.ts, the MCP stdio server).                              *)
(*                                                                         *)
(* SQL text is a sequence of one-character strings, so that the lexical    *)
(* scans of the code are modelled character by character.                  *)
(***************************************************************************)
EXTENDS Integers, Sequences, FiniteSets, TLC

VARIABLES
    gSql,        \* sqlGuard: the raw statement handed to the guard
    gTables,     \* sqlGuard: the tables the statement really names (ground truth of the input)
    gAllow,      \* sqlGuard: the allowlist (a sequence of entries)
    gPc,         \* sqlGuard: "input" | "done"
    gSingle,     \* sqlGuard: outcome of enforceSingleStatement
    gCategory,   \* sqlGuard: outcome of classifyStatement on the normalized text
    gVerdict,    \* sqlGuard: outcome of validateAllowlist
    gLastIndex,  \* sqlGuard: lastIndex of TABLE_TOKEN_PATTERN and of each of TABLE_SEARCH_PATTERNS
    dReq,        \* db: the call (driver, sql, args, analyze)
    dPc,         \* db: "input" | "done"
    dPath,       \* db: which entry point ran: "bind" | "execute" | "explain"
    dBound,      \* db: outcome of the dialect's binder called on (sql, args)
    dOut,        \* db: outcome of executeSql / explainQuery up to the driver call
    settings,    \* server: getSettings()
    req,         \* server: the tool call being handled
    pc,          \* server: "idle" | "awaiting" (the handler awaits withTimeout) | "replied"
    run,         \* server: what the handler computed on its way
    pending,     \* server: what the database function called will hand to its driver
    issued,      \* server: the queries handed to a driver for this call
    resp,        \* server: the reply (the last one sent)
    op,          \* server: where the database function called is
    sent,        \* server: the number of replies sent to this call
    crashed,     \* server: the process was terminated by an unhandled rejection
    audit,       \* server: the audit events logged for this call
    borrowed,    \* server: the pooled connections the database function called has got
    released,    \* server: the number of release() calls on them
    postgresPools, \* pools: the Map of connection string to Pool
    sqliteDbs,     \* pools: the Map of path to the promise of a Database
    mysqlPools,    \* pools: the Map of connection string to mysql.Pool
    created,       \* pools: the pools and handles created, in order
    callers,       \* pools: the concurrent calls of the database layer
    settled,       \* pools: for each of `created`, how the promise of open() has settled
    env,            \* settings: process.env (MAX_ROWS and QUERY_TIMEOUT_SEC)
    cachedSettings, \* settings: the module's cachedSettings
    snapshot,       \* settings: what the last call of getSettings returned
    getCalls        \* settings: the number of calls of getSettings so far

guardVars == <<gSql, gTables, gAllow, gPc, gSingle, gCategory, gVerdict, gLastIndex>>
dbVars == <<dReq, dPc, dPath, dBound, dOut>>
serverVars == <<settings, req, pc, run, pending, issued, resp, op, sent, crashed, audit,
                borrowed, released>>
poolVars == <<postgresPools, sqliteDbs, mysqlPools, created, callers, settled>>
envVars == <<env, cachedSettings, snapshot, getCalls>>

----------------------------------------------------------------------------
(* Characters and strings *)

Chars(s) == [i \in 1..Len(s) |-> SubSeq(s, i, i)]

\* The backtick character (written next to a quote, which the parser pairs it with)
Backtick == SubSeq("`'", 1, 1)

LowerLetters == Chars("abcdefghijklmnopqrstuvwxyz")
UpperLetters == Chars("ABCDEFGHIJKLMNOPQRSTUVWXYZ")
LowerSet == {LowerLetters[i] : i \in 1..Len(LowerLetters)}
UpperSet == {UpperLetters[i] : i \in 1..Len(UpperLetters)}
DigitSet == {"0", "1", "2", "3", "4", "5", "6", "7", "8", "9"}

ToLowerMap == [c \in UpperSet |-> LowerLetters[CHOOSE i \in 1..Len(UpperLetters) : UpperLetters[i] = c]]
ToUpperMap == [c \in LowerSet |-> UpperLetters[CHOOSE i \in 1..Len(LowerLetters) : LowerLetters[i] = c]]

ToLowerChar(c) == IF c \in UpperSet THEN ToLowerMap[c] ELSE c
ToUpperChar(c) == IF c \in LowerSet THEN ToUpperMap[c] ELSE c
ToLowerCase(s) == [i \in 1..Len(s) |-> ToLowerChar(s[i])]
ToUpperCase(s) == [i \in 1..Len(s) |-> ToUpperChar(s[i])]

\* JavaScript \s and String.prototype.trim whitespace (the ASCII part)
IsSpace(c) == c \in {" ", "\t", "\n", "\r"}
\* [A-Za-z_]
IsIdentStart(c) == c \in LowerSet \/ c \in UpperSet \/ c = "_"
\* \w = [A-Za-z0-9_]
IsWordChar(c) == IsIdentStart(c) \/ c \in DigitSet
\* [\w$]
IsIdentPart(c) == IsWordChar(c) \/ c = "$"

\* s[i], or "" where JavaScript gives undefined (out of range)
At(s, i) == IF i >= 1 /\ i <= Len(s) THEN s[i] ELSE ""

RECURSIVE TrimStart(_)
TrimStart(s) == IF s # <<>> /\ IsSpace(Head(s)) THEN TrimStart(Tail(s)) ELSE s

RECURSIVE TrimEnd(_)
TrimEnd(s) == IF s # <<>> /\ IsSpace(s[Len(s)]) THEN TrimEnd(SubSeq(s, 1, Len(s) - 1)) ELSE s

Trim(s) == TrimEnd(TrimStart(s))

StartsWithAt(s, i, p) == i + Len(p) - 1 <= Len(s) /\ SubSeq(s, i, i + Len(p) - 1) = p
StartsWith(s, p) == StartsWithAt(s, 1, p)
EndsWith(s, p) == Len(p) <= Len(s) /\ SubSeq(s, Len(s) - Len(p) + 1, Len(s)) = p
Includes(s, c) == \E i \in 1..Len(s) : s[i] = c

\* Array.prototype.join
RECURSIVE Join(_, _)
Join(parts, sep) ==
    IF parts = <<>> THEN <<>>
    ELSE IF Len(parts) = 1 THEN parts[1]
    ELSE parts[1] \o sep \o Join(Tail(parts), sep)

\* The part of s before its first c (all of s when there is none)
RECURSIVE UpTo(_, _)
UpTo(s, c) == IF s = <<>> \/ Head(s) = c THEN <<>> ELSE <<Head(s)>> \o UpTo(Tail(s), c)

\* String.prototype.split(c): the pieces between the occurrences of c
RECURSIVE SplitOn(_, _)
SplitOn(s, c) ==
    LET first == UpTo(s, c)
    IN  IF Len(first) = Len(s) THEN <<first>>
        ELSE <<first>> \o SplitOn(SubSeq(s, Len(first) + 2, Len(s)), c)

\* String.prototype.split(c, limit): the first `limit` pieces of the full split
SplitLimit(s, c, limit) ==
    LET all == SplitOn(s, c)
    IN  SubSeq(all, 1, IF Len(all) < limit THEN Len(all) ELSE limit)

SeqToSet(q) == {q[i] : i \in 1..Len(q)}

----------------------------------------------------------------------------
(* sqlGuard.ts *)

READ_KEYWORDS == {Chars("SELECT"), Chars("WITH")}
WRITE_KEYWORDS == {Chars("INSERT"), Chars("UPDATE"), Chars("DELETE"), Chars("MERGE"), Chars("TRUNCATE")}
DDL_KEYWORDS == {Chars("CREATE"), Chars("ALTER"), Chars("DROP"), Chars("RENAME"), Chars("REINDEX"), Chars("VACUUM")}

\* The candidate ends of the double-quoted alternative of IDENTIFIER_PATTERN,
\* "(?:[^"]|"")*", whose opening quote precedes position q, in the order the
\* backtracking matcher tries them: the greedy star first runs as far as it can
\* (to a lone quote), then gives back one iteration at a time (closing on the
\* first quote of a doubled pair).
RECURSIVE QuotedEnds(_, _)
QuotedEnds(s, q) ==
    IF q > Len(s) THEN <<>>
    ELSE IF s[q] # "\"" THEN QuotedEnds(s, q + 1)
    ELSE IF At(s, q + 1) = "\"" THEN QuotedEnds(s, q + 2) \o <<q>>
    ELSE <<q>>

\* The end of the longest run [\w$]* from position q on (q - 1 when empty)
RECURSIVE BareEnd(_, _)
BareEnd(s, q) == IF q <= Len(s) /\ IsIdentPart(s[q]) THEN BareEnd(s, q + 1) ELSE q - 1

\* IDENTIFIER_PATTERN at position p: the ends it can match to, in the matcher's
\* order of preference. A bare identifier is given by its longest match only: a
\* shorter one is followed by an identifier character, after which neither "."
\* nor the end of the pattern's needs can match differently.
IdentEnds(s, p) ==
    IF At(s, p) = "\"" THEN QuotedEnds(s, p + 1)
    ELSE IF IsIdentStart(At(s, p)) THEN <<BareEnd(s, p + 1)>>
    ELSE <<>>

\* TABLE_TOKEN_PATTERN, (IDENT\.IDENT), at position p: the end of the match, 0 if none
TableTokenEndAt(s, p) ==
    LET ends == IdentEnds(s, p)
        ok(e) == At(s, e + 1) = "." /\ IdentEnds(s, e + 2) # <<>>
        good == SelectSeq(ends, ok)
    IN  IF good = <<>> THEN 0 ELSE IdentEnds(s, good[1] + 2)[1]

\* (IDENT(?:\.IDENT)?) at position p: the end of the match, 0 if none
OptQualifiedEndAt(s, p) ==
    LET ends == IdentEnds(s, p)
    IN  IF ends = <<>> THEN 0
        ELSE LET e == ends[1]
             IN  IF At(s, e + 1) = "." /\ IdentEnds(s, e + 2) # <<>>
                 THEN IdentEnds(s, e + 2)[1]
                 ELSE e

\* \s+ from position q on: the position after the run, 0 when there is no space at q
RECURSIVE SkipSpaces1(_, _)
SkipSpaces1(s, q) ==
    IF q <= Len(s) /\ IsSpace(s[q])
    THEN IF q + 1 <= Len(s) /\ IsSpace(s[q + 1]) THEN SkipSpaces1(s, q + 1) ELSE q + 1
    ELSE 0

\* <w1>\s+<w2>\s+ ... (flag i): the keywords of one TABLE_SEARCH_PATTERNS entry,
\* each followed by \s+; the position where the identifier group starts, 0 if no match
RECURSIVE AnchorAt(_, _, _)
AnchorAt(s, p, words) ==
    LET k == IF /\ p + Len(words[1]) - 1 <= Len(s)
                /\ ToLowerCase(SubSeq(s, p, p + Len(words[1]) - 1)) = words[1]
             THEN p + Len(words[1]) ELSE 0
        q == IF k = 0 THEN 0 ELSE SkipSpaces1(s, k)
    IN  IF q = 0 THEN 0
        ELSE IF Len(words) = 1 THEN q
        ELSE AnchorAt(s, q, Tail(words))

\* The keyword anchors of TABLE_SEARCH_PATTERNS, in the order of the array
TABLE_SEARCH_PATTERNS ==
    << <<Chars("from")>>, <<Chars("join")>>, <<Chars("update")>>, <<Chars("into")>>,
       <<Chars("delete"), Chars("from")>>, <<Chars("truncate"), Chars("table")>> >>

\* One TABLE_SEARCH_PATTERNS entry at position p: <<start, end>> of its group, <<0, 0>> if none
SearchGroupAt(s, p, words) ==
    LET q == IF ~IsWordChar(At(s, p - 1)) THEN AnchorAt(s, p, words) ELSE 0
        e == IF q = 0 THEN 0 ELSE OptQualifiedEndAt(s, q)
    IN  IF e = 0 THEN <<0, 0>> ELSE <<q, e>>

\* sql.matchAll(TABLE_TOKEN_PATTERN): the captured tokens, left to right from position p
RECURSIVE TableTokenMatches(_, _)
TableTokenMatches(s, p) ==
    IF p > Len(s) THEN <<>>
    ELSE LET e == TableTokenEndAt(s, p)
         IN  IF e = 0 THEN TableTokenMatches(s, p + 1)
             ELSE <<SubSeq(s, p, e)>> \o TableTokenMatches(s, e + 1)

\* while ((match = pattern.exec(sql)) !== null): the captured groups of one
\* global pattern, left to right from position p (lastIndex)
RECURSIVE SearchMatches(_, _, _)
SearchMatches(s, p, words) ==
    IF p > Len(s) THEN <<>>
    ELSE LET g == SearchGroupAt(s, p, words)
         IN  IF g[2] = 0 THEN SearchMatches(s, p + 1, words)
             ELSE <<SubSeq(s, g[1], g[2])>> \o SearchMatches(s, g[2] + 1, words)

\* Every token validateAllowlist hands to addReferenceTokens, in call order
RECURSIVE AllSearchMatches(_, _)
AllSearchMatches(s, k) ==
    IF k > Len(TABLE_SEARCH_PATTERNS) THEN <<>>
    ELSE SearchMatches(s, 1, TABLE_SEARCH_PATTERNS[k]) \o AllSearchMatches(s, k + 1)

ReferenceTokens(s) == TableTokenMatches(s, 1) \o AllSearchMatches(s, 1)

\* splitQualifiedIdentifier's loop from `index` on, `start` being the start of
\* the current part
RECURSIVE SplitFrom(_, _, _, _)
SplitFrom(t, index, start, inQuotes) ==
    IF index > Len(t) THEN <<SubSeq(t, start, Len(t))>>
    ELSE IF t[index] = "\"" THEN
        IF inQuotes /\ At(t, index + 1) = "\""
        THEN SplitFrom(t, index + 2, start, inQuotes)
        ELSE SplitFrom(t, index + 1, start, ~inQuotes)
    ELSE IF t[index] = "." /\ ~inQuotes THEN
        <<SubSeq(t, start, index - 1)>> \o SplitFrom(t, index + 1, index + 1, inQuotes)
    ELSE SplitFrom(t, index + 1, start, inQuotes)

splitQualifiedIdentifier(raw) == SplitFrom(Trim(raw), 1, 1, FALSE)

\* String.prototype.replace(/""/g, '"')
RECURSIVE CollapseQuotes(_)
CollapseQuotes(s) ==
    IF s = <<>> THEN <<>>
    ELSE IF s[1] = "\"" /\ At(s, 2) = "\"" THEN <<"\"">> \o CollapseQuotes(SubSeq(s, 3, Len(s)))
    ELSE <<s[1]>> \o CollapseQuotes(Tail(s))

normalizeIdentifier(identifier) ==
    LET trimmed == Trim(identifier)
    IN  IF Len(trimmed) >= 2 /\ trimmed[1] = "\"" /\ trimmed[Len(trimmed)] = "\""
        THEN ToLowerCase(CollapseQuotes(SubSeq(trimmed, 2, Len(trimmed) - 1)))
        ELSE ToLowerCase(trimmed)

\* Map.prototype.has / get / set on the insertion-ordered map `referenced`,
\* a sequence of [token, explicit] entries with distinct tokens
MapHas(referenced, token) == \E i \in 1..Len(referenced) : referenced[i].token = token
MapSet(referenced, token, explicit) ==
    IF MapHas(referenced, token)
    THEN [i \in 1..Len(referenced) |->
            IF referenced[i].token = token THEN [token |-> token, explicit |-> explicit]
            ELSE referenced[i]]
    ELSE Append(referenced, [token |-> token, explicit |-> explicit])

\* addReferenceTokens: the map after the call (the call itself always returns true:
\* splitQualifiedIdentifier never returns an empty array)
addReferenceTokens(rawToken, referenced) ==
    LET segments == splitQualifiedIdentifier(rawToken)
    IN  IF Len(segments) > 1
        THEN LET normalizedSegments == [i \in 1..Len(segments) |-> normalizeIdentifier(segments[i])]
                 tableName == normalizedSegments[Len(normalizedSegments)]
                 schemaName == Join(SubSeq(normalizedSegments, 1, Len(normalizedSegments) - 1), <<".">>)
             IN  IF schemaName # <<>>
                 THEN MapSet(referenced, schemaName \o <<".">> \o tableName, TRUE)
                 ELSE referenced
        ELSE LET token == Chars("public.") \o normalizeIdentifier(segments[1])
             IN  IF ~MapHas(referenced, token) THEN MapSet(referenced, token, FALSE)
                 ELSE referenced

RECURSIVE AddAll(_, _)
AddAll(tokens, referenced) ==
    IF tokens = <<>> THEN referenced
    ELSE AddAll(Tail(tokens), addReferenceTokens(Head(tokens), referenced))

\* The number of single quotes of s before position i
RECURSIVE QuotesBefore(_, _)
QuotesBefore(s, i) ==
    IF i <= 1 THEN 0 ELSE QuotesBefore(s, i - 1) + (IF s[i - 1] = "'" THEN 1 ELSE 0)

\* Position i of s lies inside a single-quoted literal
InLiteral(s, i) == QuotesBefore(s, i) % 2 = 1

\* A quote-aware variant of enforceSingleStatement, which C10 must tell from it:
\* only a ';' outside single-quoted literals counts as a second statement
enforceSingleStatementQuoteAware(sql) ==
    LET stripped == Trim(sql)
        body == IF EndsWith(stripped, <<";">>) THEN SubSeq(stripped, 1, Len(stripped) - 1) ELSE stripped
    IN  IF Len(stripped) = 0
        THEN [ok |-> FALSE, error |-> "SQL statement must not be empty", text |-> <<>>]
        ELSE IF \E i \in 1..Len(body) : body[i] = ";" /\ ~InLiteral(body, i)
        THEN [ok |-> FALSE, error |-> "Only single SQL statements are permitted", text |-> <<>>]
        ELSE [ok |-> TRUE, error |-> "", text |-> Trim(body)]

\* A lenient variant of enforceSingleStatement, which C9 must tell from it:
\* the text after the first ';' is dropped instead of refused
enforceFirstStatement(sql) ==
    IF Len(Trim(sql)) = 0
    THEN [ok |-> FALSE, error |-> "SQL statement must not be empty", text |-> <<>>]
    ELSE [ok |-> TRUE, error |-> "", text |-> Trim(UpTo(Trim(sql), ";"))]

\* enforceSingleStatement: [ok, error, text]
enforceSingleStatement(sql) ==
    LET stripped == Trim(sql)
        body == IF EndsWith(stripped, <<";">>) THEN SubSeq(stripped, 1, Len(stripped) - 1) ELSE stripped
    IN  IF Len(stripped) = 0
        THEN [ok |-> FALSE, error |-> "SQL statement must not be empty", text |-> <<>>]
        ELSE IF Includes(body, ";")
        THEN [ok |-> FALSE, error |-> "Only single SQL statements are permitted", text |-> <<>>]
        ELSE [ok |-> TRUE, error |-> "",
              text |-> IF EndsWith(stripped, <<";">>) THEN Trim(SubSeq(stripped, 1, Len(stripped) - 1))
                       ELSE stripped]

\* A variant of classifyStatement that looks for the keyword at the start of
\* the text instead of comparing the whole first token
classifyByPrefix(sql) ==
    LET text == ToUpperCase(Trim(sql))
    IN  IF \E k \in READ_KEYWORDS : StartsWith(text, k) THEN "read"
        ELSE IF \E k \in WRITE_KEYWORDS : StartsWith(text, k) THEN "write"
        ELSE IF \E k \in DDL_KEYWORDS : StartsWith(text, k) THEN "ddl"
        ELSE "unknown"

\* sql.trim().split(/\s+/, 1)[0]: the text up to the first whitespace
RECURSIVE FirstToken(_)
FirstToken(s) == IF s = <<>> \/ IsSpace(Head(s)) THEN <<>> ELSE <<Head(s)>> \o FirstToken(Tail(s))

classifyStatement(sql) ==
    LET leading == ToUpperCase(FirstToken(Trim(sql)))
    IN  IF leading \in READ_KEYWORDS THEN "read"
        ELSE IF leading \in WRITE_KEYWORDS THEN "write"
        ELSE IF leading \in DDL_KEYWORDS THEN "ddl"
        ELSE "unknown"

\* JavaScript's undefined, where a string is expected (equal to no string)
Undefined == <<"undefined">>

\* The filter of validateAllowlist: whether one entry of `referenced` is disallowed
IsDisallowed(entry, normalizedAllow) ==
    LET allowBare == {a \in normalizedAllow : ~Includes(a, ".")}
        pieces == IF Includes(entry.token, ".") THEN SplitLimit(entry.token, ".", 2)
                  ELSE <<Undefined, entry.token>>
        schema == pieces[1]
        table == IF Len(pieces) >= 2 THEN pieces[2] ELSE Undefined
    IN  IF entry.token \in normalizedAllow THEN FALSE
        ELSE IF table \in allowBare /\ (~entry.explicit \/ schema = Chars("public")) THEN FALSE
        ELSE TRUE

\* The outcome of validateAllowlist: [ok, sawReference, referenced, disallowed];
\* ok = FALSE is the thrown SQLValidationError, whose message lists `disallowed`
AllowlistOutcome(normalizedAllow, sawReference, referenced, disallowed) ==
    IF normalizedAllow = {}
    THEN [ok |-> TRUE, sawReference |-> FALSE, referenced |-> <<>>, disallowed |-> <<>>]
    ELSE IF ~sawReference
    THEN [ok |-> TRUE, sawReference |-> FALSE, referenced |-> referenced, disallowed |-> <<>>]
    ELSE [ok |-> disallowed = <<>>, sawReference |-> TRUE, referenced |-> referenced,
          disallowed |-> disallowed]

\* .map(([token]) => token)
TokensOf(entries) == [i \in 1..Len(entries) |-> entries[i].token]

\* Array.from(referenced.entries()).filter(...)
Disallowed(referenced, normalizedAllow) ==
    LET isBad(entry) == IsDisallowed(entry, normalizedAllow)
    IN  TokensOf(SelectSeq(referenced, isBad))

\* validateAllowlist from the filter on, given the map the two scans built
FilterReferenced(normalizedAllow, sawReference, referenced) ==
    AllowlistOutcome(normalizedAllow, sawReference, referenced,
                     Disallowed(referenced, normalizedAllow))

\* validateAllowlist from the scans on: every matched token goes through
\* addReferenceTokens, which returns true for each
ScanReferences(normalizedAllow, tokens) ==
    FilterReferenced(normalizedAllow, tokens # <<>>, AddAll(tokens, <<>>))

validateAllowlist(sql, allowlist) ==
    ScanReferences({ToLowerCase(allowlist[i]) : i \in 1..Len(allowlist)}, ReferenceTokens(sql))

\* The regular expressions as the module creates them: lastIndex = 0
FreshLastIndex == [token |-> 0, search |-> [k \in 1..Len(TABLE_SEARCH_PATTERNS) |-> 0]]

\* The first match of one of TABLE_SEARCH_PATTERNS at or after position p:
\* <<start, end>> of its group, <<0, 0>> if none
RECURSIVE FirstSearchFrom(_, _, _)
RECURSIVE FirstSearchOr(_, _, _, _)
FirstSearchOr(g, s, p, words) == IF g[2] # 0 THEN g ELSE FirstSearchFrom(s, p + 1, words)

FirstSearchFrom(s, p, words) ==
    IF p > Len(s) THEN <<0, 0>> ELSE FirstSearchOr(SearchGroupAt(s, p, words), s, p, words)

\* What exec returns for the match g found from lastIndex on: the group and
\* the pattern's lastIndex, which `reset` is when nothing matched
ExecResult(s, g, reset) ==
    IF g[2] = 0 THEN [null |-> TRUE, group |-> <<>>, lastIndex |-> reset]
    ELSE [null |-> FALSE, group |-> SubSeq(s, g[1], g[2]), lastIndex |-> g[2]]

\* A variant of RegExpExec that leaves lastIndex where it was when nothing matches
RegExpExecKeepsIndex(s, lastIndex, words) ==
    ExecResult(s, FirstSearchFrom(s, lastIndex + 1, words), lastIndex)

\* pattern.exec(sql) of a global pattern: the search starts at lastIndex; a
\* match leaves lastIndex after its end, null leaves lastIndex = 0
RegExpExec(s, lastIndex, words) ==
    ExecResult(s, FirstSearchFrom(s, lastIndex + 1, words), 0)

\* while ((match = pattern.exec(sql)) !== null) { addReferenceTokens(match[1], ..) }:
\* the groups captured, and lastIndex when the loop is left
RECURSIVE ExecLoop(_, _, _)
RECURSIVE ExecLoopOn(_, _, _)
PrependGroup(group, rest) == [tokens |-> <<group>> \o rest.tokens, lastIndex |-> rest.lastIndex]

ExecLoopOn(s, words, m) ==
    IF m.null THEN [tokens |-> <<>>, lastIndex |-> m.lastIndex]
    ELSE PrependGroup(m.group, ExecLoop(s, m.lastIndex, words))

ExecLoop(s, lastIndex, words) == ExecLoopOn(s, words, RegExpExec(s, lastIndex, words))

\* for (const pattern of TABLE_SEARCH_PATTERNS): the loops of the patterns
\* from the k-th on
RECURSIVE ExecLoops(_, _, _)
RECURSIVE ExecLoopsAfter(_, _, _, _)
JoinLoops(one, rest) == [tokens |-> one.tokens \o rest.tokens, search |-> rest.search]

ExecLoopsAfter(s, search, k, one) ==
    JoinLoops(one, ExecLoops(s, [search EXCEPT ![k] = one.lastIndex], k + 1))

ExecLoops(s, search, k) ==
    IF k > Len(TABLE_SEARCH_PATTERNS) THEN [tokens |-> <<>>, search |-> search]
    ELSE ExecLoopsAfter(s, search, k, ExecLoop(s, search[k], TABLE_SEARCH_PATTERNS[k]))

\* The outcome of validateAllowlist given what the loops captured
ValidatedWith(sql, normalizedAllow, lastIndex, loops) ==
    IF normalizedAllow = {}
    THEN [verdict |-> AllowlistOutcome({}, FALSE, <<>>, <<>>), lastIndex |-> lastIndex]
    ELSE [verdict |-> ScanReferences(normalizedAllow,
                                     TableTokenMatches(sql, lastIndex.token + 1) \o loops.tokens),
          lastIndex |-> [lastIndex EXCEPT !.search = loops.search]]

\* validateAllowlist as it runs on the regular expressions of the module,
\* given their lastIndex: the outcome, and their lastIndex on exit.
\* sql.matchAll(TABLE_TOKEN_PATTERN) works on a copy of the pattern that
\* starts at the pattern's lastIndex, and leaves the pattern as it was.
validateAllowlistFrom(sql, allowlist, lastIndex) ==
    ValidatedWith(sql, {ToLowerCase(allowlist[i]) : i \in 1..Len(allowlist)}, lastIndex,
                  ExecLoops(sql, lastIndex.search, 1))

\* No outcome yet
NoResult == [ok |-> FALSE, error |-> "not run"]

----------------------------------------------------------------------------
(* db.ts: the parameter binders *)

\* [A-Za-z0-9_]
IsNameChar(c) == IsWordChar(c)

\* The end of the run [A-Za-z0-9_]* from position j on (j - 1 when empty)
RECURSIVE NameEnd(_, _)
NameEnd(sql, j) == IF j <= Len(sql) /\ IsNameChar(sql[j]) THEN NameEnd(sql, j + 1) ELSE j - 1

\* The decimal digits of n >= 0, as `${index}` writes them
RECURSIVE Digits(_)
Digits(n) ==
    LET d == <<"0", "1", "2", "3", "4", "5", "6", "7", "8", "9">>[(n % 10) + 1]
    IN  IF n < 10 THEN <<d>> ELSE Digits(n \div 10) \o <<d>>

\* The caller's argument map: present = FALSE is undefined; map is a function
\* from names to values
NoArgs == [present |-> FALSE, map |-> <<>>]
ArgsOf(f) == [present |-> TRUE, map |-> f]

\* Property names every plain object inherits from Object.prototype
ObjectPrototypeKeys ==
    { Chars("constructor"), Chars("toString"), Chars("valueOf"), Chars("hasOwnProperty"),
      Chars("isPrototypeOf"), Chars("propertyIsEnumerable"), Chars("toLocaleString"),
      Chars("__proto__"), Chars("__defineGetter__"), Chars("__defineSetter__"),
      Chars("__lookupGetter__"), Chars("__lookupSetter__") }

\* !args || Object.keys(args).length === 0
ArgsEmpty(args) == ~args.present \/ DOMAIN args.map = {}
\* Object.prototype.hasOwnProperty.call(args, name)
HasOwn(args, name) == name \in DOMAIN args.map
\* name in args
InArgs(args, name) == HasOwn(args, name) \/ name \in ObjectPrototypeKeys
\* args[name]
ArgValue(args, name) == IF HasOwn(args, name) THEN args.map[name] ELSE "inherited"

\* The result of a binder: the rewritten text and the values, or the thrown
\* DatabaseError("Missing value for SQL parameter :name"). `hits` are the
\* positions of the input the scanner read as a placeholder.
BindOk(text, values, hits) ==
    [ok |-> TRUE, text |-> text, values |-> values, hits |-> hits, missing |-> <<>>]
BindMissing(name, hits) ==
    [ok |-> FALSE, text |-> <<>>, values |-> <<>>, hits |-> hits, missing |-> name]

\* A variant of the opening match that knows the empty tag $$ only
DollarEmptyTagAt(sql, i) ==
    IF At(sql, i) = "$" /\ At(sql, i + 1) = "$" THEN Chars("$$") ELSE <<>>

\* ahead.match(/^\$[A-Za-z0-9_]*\$/) at position i: the tag, <<>> if no match
DollarTagAt(sql, i) ==
    IF At(sql, i) = "$" /\ At(sql, NameEnd(sql, i + 1) + 1) = "$"
    THEN SubSeq(sql, i, NameEnd(sql, i + 1) + 1)
    ELSE <<>>

IndexOf(names, name) == CHOOSE k \in 1..Len(names) : names[k] = name

\* The state of a binder's loop: the position, the one flag that is set (the flags
\* are exclusive: each is set in the normal state only), dollarQuoteTag, the text
\* and values so far, indexMap's names in insertion order, and how it ended
ScanStart ==
    [i |-> 1, mode |-> "normal", tag |-> <<>>, text |-> <<>>, values |-> <<>>,
     names |-> <<>>, hits |-> <<>>, failed |-> FALSE, missing |-> <<>>]

\* A variant of the iteration that leaves white space out of what it copies
CopyNoSpace(st, n, mode, out) ==
    [st EXCEPT !.i = st.i + n, !.mode = mode,
               !.text = st.text \o SelectSeq(out, LAMBDA c : ~IsSpace(c))]

\* One iteration that copies `out`, moves n characters on and leaves the flag `mode`
Copy(st, n, mode, out) == [st EXCEPT !.i = st.i + n, !.mode = mode, !.text = st.text \o out]

\* throw new DatabaseError(`Missing value for SQL parameter :${name}`)
Throw(st, name) == [st EXCEPT !.failed = TRUE, !.missing = name, !.hits = Append(st.hits, st.i)]

ScanResult(st) ==
    IF st.failed THEN BindMissing(st.missing, st.hits) ELSE BindOk(st.text, st.values, st.hits)

\* One iteration of the loop of bindPostgresParameters
PgStep(sql, args, st) ==
    LET i == st.i
        char == sql[i]
        mode == st.mode
        dollarMatch == DollarTagAt(sql, i)
        j == NameEnd(sql, i + 1)
        name == SubSeq(sql, i + 1, j)
        known == \E k \in 1..Len(st.names) : st.names[k] = name
        names2 == IF known THEN st.names ELSE Append(st.names, name)
    IN
    IF mode = "line" THEN Copy(st, 1, IF char = "\n" THEN "normal" ELSE "line", <<char>>)
    ELSE IF mode = "block" THEN
        IF StartsWithAt(sql, i, Chars("*/")) THEN Copy(st, 2, "normal", Chars("*/"))
        ELSE Copy(st, 1, "block", <<char>>)
    ELSE IF mode = "dollar" THEN
        IF StartsWithAt(sql, i, st.tag) THEN [Copy(st, Len(st.tag), "normal", st.tag) EXCEPT !.tag = <<>>]
        ELSE Copy(st, 1, "dollar", <<char>>)
    ELSE IF mode = "sq" THEN
        IF char = "'" /\ At(sql, i + 1) = "'" THEN Copy(st, 2, "sq", Chars("''"))
        ELSE Copy(st, 1, IF char = "'" THEN "normal" ELSE "sq", <<char>>)
    ELSE IF mode = "dq" THEN
        IF char = "\"" /\ At(sql, i + 1) = "\"" THEN Copy(st, 2, "dq", Chars("\"\""))
        ELSE Copy(st, 1, IF char = "\"" THEN "normal" ELSE "dq", <<char>>)
    ELSE IF dollarMatch # <<>> THEN
        [Copy(st, Len(dollarMatch), "dollar", dollarMatch) EXCEPT !.tag = dollarMatch]
    ELSE IF StartsWithAt(sql, i, Chars("--")) THEN Copy(st, 2, "line", Chars("--"))
    ELSE IF StartsWithAt(sql, i, Chars("/*")) THEN Copy(st, 2, "block", Chars("/*"))
    ELSE IF char = "'" THEN Copy(st, 1, "sq", <<char>>)
    ELSE IF char = "\"" THEN Copy(st, 1, "dq", <<char>>)
    ELSE IF char = ":" /\ At(sql, i - 1) # ":" /\ IsIdentStart(At(sql, i + 1)) THEN
        IF ~InArgs(args, name) THEN Throw(st, name)
        ELSE [Copy(st, j - i + 1, "normal", <<"$">> \o Digits(IndexOf(names2, name)))
                EXCEPT !.values = IF known THEN st.values ELSE Append(st.values, ArgValue(args, name)),
                       !.names = names2,
                       !.hits = Append(st.hits, i)]
    ELSE Copy(st, 1, "normal", <<char>>)

RECURSIVE PgRun(_, _, _)
PgRun(sql, args, st) ==
    IF st.failed \/ st.i > Len(sql) THEN st ELSE PgRun(sql, args, PgStep(sql, args, st))

\* A variant of bindPostgresParameters that pushes a value for every
\* occurrence of a placeholder, a repeated one included
bindPostgresEveryOccurrence(sql, args) ==
    LET r == ScanResult(PgRun(sql, args, ScanStart))
    IN  IF ArgsEmpty(args) THEN BindOk(sql, <<>>, <<>>)
        ELSE IF ~r.ok THEN r
        ELSE [r EXCEPT !.values =
                [k \in 1..Len(r.hits) |->
                    ArgValue(args, SubSeq(sql, r.hits[k] + 1, NameEnd(sql, r.hits[k] + 1)))]]

bindPostgresParameters(sql, args) ==
    IF ArgsEmpty(args) THEN BindOk(sql, <<>>, <<>>)
    ELSE ScanResult(PgRun(sql, args, ScanStart))

\* isEscapedWithBackslash(text, index): an odd run of backslashes ends before index
RECURSIVE BackslashRun(_, _)
BackslashRun(text, i) == IF i >= 1 /\ text[i] = "\\" THEN 1 + BackslashRun(text, i - 1) ELSE 0

isEscapedWithBackslash(text, index) == BackslashRun(text, index - 1) % 2 = 1

\* One iteration of the loop of bindMysqlParameters
MyStep(sql, args, st) ==
    LET i == st.i
        char == sql[i]
        mode == st.mode
        j == NameEnd(sql, i + 1)
        name == SubSeq(sql, i + 1, j)
    IN
    IF mode = "line" THEN Copy(st, 1, IF char = "\n" THEN "normal" ELSE "line", <<char>>)
    ELSE IF mode = "block" THEN
        IF StartsWithAt(sql, i, Chars("*/")) THEN Copy(st, 2, "normal", Chars("*/"))
        ELSE Copy(st, 1, "block", <<char>>)
    ELSE IF mode = "sq" THEN
        IF char = "'" /\ At(sql, i + 1) = "'" THEN Copy(st, 2, "sq", Chars("''"))
        ELSE Copy(st, 1, IF char = "'" /\ ~isEscapedWithBackslash(sql, i) THEN "normal" ELSE "sq",
                  <<char>>)
    ELSE IF mode = "dq" THEN
        IF char = "\"" /\ At(sql, i + 1) = "\"" THEN Copy(st, 2, "dq", Chars("\"\""))
        ELSE Copy(st, 1, IF char = "\"" /\ ~isEscapedWithBackslash(sql, i) THEN "normal" ELSE "dq",
                  <<char>>)
    ELSE IF mode = "bt" THEN
        IF char = Backtick /\ At(sql, i + 1) = Backtick THEN Copy(st, 2, "bt", <<Backtick, Backtick>>)
        ELSE Copy(st, 1, IF char = Backtick THEN "normal" ELSE "bt", <<char>>)
    ELSE IF StartsWithAt(sql, i, Chars("--")) THEN Copy(st, 2, "line", Chars("--"))
    ELSE IF char = "#" THEN Copy(st, 1, "line", <<char>>)
    ELSE IF StartsWithAt(sql, i, Chars("/*")) THEN Copy(st, 2, "block", Chars("/*"))
    ELSE IF char = "'" THEN Copy(st, 1, "sq", <<char>>)
    ELSE IF char = "\"" THEN Copy(st, 1, "dq", <<char>>)
    ELSE IF char = Backtick THEN Copy(st, 1, "bt", <<char>>)
    ELSE IF char = ":" /\ At(sql, i - 1) # ":" /\ IsIdentStart(At(sql, i + 1)) THEN
        IF ~InArgs(args, name) THEN Throw(st, name)
        ELSE [Copy(st, j - i + 1, "normal", <<"?">>)
                EXCEPT !.values = Append(st.values, ArgValue(args, name)),
                       !.hits = Append(st.hits, i)]
    ELSE Copy(st, 1, "normal", <<char>>)

RECURSIVE MyRun(_, _, _)
MyRun(sql, args, st) ==
    IF st.failed \/ st.i > Len(sql) THEN st ELSE MyRun(sql, args, MyStep(sql, args, st))

\* A variant of bindMysqlParameters that pushes the value of a repeated
\* placeholder once only
bindMysqlOncePerName(sql, args) ==
    LET r == ScanResult(MyRun(sql, args, ScanStart))
        nameAt(h) == SubSeq(sql, h + 1, NameEnd(sql, h + 1))
        first(h) == ~\E k \in 1..Len(r.hits) : r.hits[k] < h /\ nameAt(r.hits[k]) = nameAt(h)
        firsts == SelectSeq(r.hits, first)
    IN  IF ArgsEmpty(args) THEN BindOk(sql, <<>>, <<>>)
        ELSE IF ~r.ok THEN r
        ELSE [r EXCEPT !.values = [k \in 1..Len(firsts) |-> ArgValue(args, nameAt(firsts[k]))]]

bindMysqlParameters(sql, args) ==
    IF ArgsEmpty(args) THEN BindOk(sql, <<>>, <<>>)
    ELSE ScanResult(MyRun(sql, args, ScanStart))

\* One iteration of the loop of replaceSqliteNamedParameters
LiteStep(sql, args, st) ==
    LET index == st.i
        char == sql[index]
        nextChar == At(sql, index + 1)
        mode == st.mode
        closing == IF mode = "sq" THEN "'" ELSE IF mode = "dq" THEN "\""
                   ELSE IF mode = "bt" THEN Backtick ELSE "]"
        nameEnd == NameEnd(sql, index + 2)
        paramName == SubSeq(sql, index + 1, nameEnd)
    IN
    IF mode = "line" THEN Copy(st, 1, IF char = "\n" THEN "normal" ELSE "line", <<char>>)
    ELSE IF mode = "block" THEN
        IF char = "*" /\ nextChar = "/" THEN Copy(st, 2, "normal", Chars("*/"))
        ELSE Copy(st, 1, "block", <<char>>)
    ELSE IF mode \in {"sq", "dq", "bt", "br"} THEN
        IF char = closing
        THEN IF nextChar = closing THEN Copy(st, 2, mode, <<closing, closing>>)
             ELSE Copy(st, 1, "normal", <<char>>)
        ELSE Copy(st, 1, mode, <<char>>)
    ELSE IF char = "-" /\ nextChar = "-" THEN Copy(st, 2, "line", Chars("--"))
    ELSE IF char = "/" /\ nextChar = "*" THEN Copy(st, 2, "block", Chars("/*"))
    ELSE IF char = "'" THEN Copy(st, 1, "sq", <<char>>)
    ELSE IF char = "\"" THEN Copy(st, 1, "dq", <<char>>)
    ELSE IF char = Backtick THEN Copy(st, 1, "bt", <<char>>)
    ELSE IF char = "[" THEN Copy(st, 1, "br", <<char>>)
    ELSE IF char = ":" /\ IsIdentStart(nextChar) THEN
        IF ~HasOwn(args, paramName) THEN Throw(st, paramName)
        ELSE [Copy(st, nameEnd - index + 1, "normal", <<"?">>)
                EXCEPT !.values = Append(st.values, ArgValue(args, paramName)),
                       !.hits = Append(st.hits, index)]
    ELSE Copy(st, 1, "normal", <<char>>)

RECURSIVE LiteRun(_, _, _)
LiteRun(sql, args, st) ==
    IF st.failed \/ st.i > Len(sql) THEN st ELSE LiteRun(sql, args, LiteStep(sql, args, st))

replaceSqliteNamedParameters(sql, args) == ScanResult(LiteRun(sql, args, ScanStart))

----------------------------------------------------------------------------
(* db.ts: connection strings and the dispatch to the drivers *)

\* A NormalizedDatabaseConfig, or the error thrown instead with its class
UrlOk(driver, key, connectionString) ==
    [ok |-> TRUE, driver |-> driver, key |-> key, connectionString |-> connectionString,
     class |-> "", error |-> ""]
UrlThrows(class, message) ==
    [ok |-> FALSE, driver |-> "none", key |-> <<>>, connectionString |-> <<>>,
     class |-> class, error |-> message]
UrlError(message) == UrlThrows("DatabaseError", message)

\* url.slice(prefix.length) for a url that starts with prefix
SliceAfter(url, prefix) == SubSeq(url, Len(prefix) + 1, Len(url))

\* The characters of the codes 0x20 to 0x7E, in order
AsciiPrintable ==
    Chars(" !\"#$%&'()*+,-./0123456789:;<=>?@") \o UpperLetters \o Chars("[\\]^_")
        \o <<Backtick>> \o LowerLetters \o Chars("{|}~")

HexDigits == Chars("0123456789ABCDEF")
IsHex(c) == \E k \in 1..16 : HexDigits[k] = ToUpperChar(c)
HexValue(c) == (CHOOSE k \in 1..16 : HexDigits[k] = ToUpperChar(c)) - 1

\* The value of the escape %hl at the head of s, -1 when s does not start
\* with a '%' and two hexadecimal digits
EscapeCode(s) ==
    IF Len(s) >= 3 /\ IsHex(s[2]) /\ IsHex(s[3]) THEN 16 * HexValue(s[2]) + HexValue(s[3])
    ELSE 0 - 1

\* decodeURIComponent(s) over escapes of one byte: a printable ASCII character
\* is decoded, a '%' without two hexadecimal digits and a lone byte from 0x80
\* on throw URIError (ok = FALSE); the escapes of control characters are
\* outside the inputs
RECURSIVE decodeURIComponent(_)
decodeURIComponent(s) ==
    IF s = <<>> THEN [ok |-> TRUE, text |-> <<>>]
    ELSE LET code == IF Head(s) = "%" THEN EscapeCode(s) ELSE 0
             rest == decodeURIComponent(IF Head(s) = "%" THEN SubSeq(s, 4, Len(s)) ELSE Tail(s))
         IN  IF Head(s) = "%" /\ (code < 32 \/ code > 126) THEN [ok |-> FALSE, text |-> <<>>]
             ELSE IF ~rest.ok THEN rest
             ELSE [ok |-> TRUE,
                   text |-> <<IF Head(s) = "%" THEN AsciiPrintable[code - 31] ELSE Head(s)>>
                            \o rest.text]

\* extractSqlitePath(url): the decoded path (text = <<>> for null), or the
\* URIError of decodeURIComponent
extractSqlitePath(url) ==
    IF url \in {Chars("sqlite::memory:"), Chars("sqlite:///:memory:"), Chars("sqlite://memory")}
    THEN [ok |-> TRUE, text |-> Chars(":memory:")]
    ELSE IF StartsWith(url, Chars("sqlite:///"))
        THEN decodeURIComponent(SliceAfter(url, Chars("sqlite:///")))
    ELSE IF StartsWith(url, Chars("sqlite://"))
        THEN decodeURIComponent(SliceAfter(url, Chars("sqlite://")))
    ELSE [ok |-> TRUE, text |-> <<>>]

normalizeDatabaseUrl(rawUrl) ==
    LET trimmed == Trim(rawUrl)
        pg == IF StartsWith(trimmed, Chars("postgresql+asyncpg://"))
              THEN Chars("postgresql://") \o SliceAfter(trimmed, Chars("postgresql+asyncpg://"))
              ELSE IF StartsWith(trimmed, Chars("postgres+asyncpg://"))
              THEN Chars("postgresql://") \o SliceAfter(trimmed, Chars("postgres+asyncpg://"))
              ELSE IF StartsWith(trimmed, Chars("postgres://"))
              THEN Chars("postgresql://") \o SliceAfter(trimmed, Chars("postgres://"))
              ELSE trimmed
        lite == IF StartsWith(pg, Chars("sqlite+aiosqlite://"))
                THEN Chars("sqlite://") \o SliceAfter(pg, Chars("sqlite+aiosqlite://"))
                ELSE pg
    IN
    IF trimmed = <<>> THEN UrlError("Database URL must not be empty")
    ELSE IF StartsWith(pg, Chars("postgresql://")) THEN UrlOk("postgres", pg, pg)
    ELSE IF StartsWith(lite, Chars("sqlite://")) THEN
        IF ~extractSqlitePath(lite).ok THEN UrlThrows("URIError", "URI malformed")
        ELSE IF extractSqlitePath(lite).text = <<>>
        THEN UrlError("SQLite connection string must include a path or :memory:")
        ELSE UrlOk("sqlite", extractSqlitePath(lite).text, lite)
    ELSE IF StartsWith(lite, Chars("mysql://")) THEN UrlOk("mysql", lite, lite)
    ELSE IF StartsWith(lite, Chars("mariadb://"))
        THEN UrlOk("mysql", Chars("mysql://") \o SliceAfter(lite, Chars("mariadb://")),
                   Chars("mysql://") \o SliceAfter(lite, Chars("mariadb://")))
    ELSE UrlError("Unsupported database URL")

\* What a driver is handed: the text, and the values either by position
\* (named = FALSE) or as sqlite's map of ":key" names (named = TRUE)
DriverQuery(driver, text, values, named) ==
    [driver |-> driver, text |-> text, values |-> values, named |-> named]

\* The outcome of the part of executeSql / explainQuery that runs before the
\* driver is called: a query to send, or the DatabaseError thrown instead
Send(query) == [ok |-> TRUE, query |-> query, error |-> "", param |-> <<>>]
DbFail(message, param) ==
    [ok |-> FALSE, query |-> DriverQuery("none", <<>>, <<>>, FALSE), error |-> message,
     param |-> param]
MissingParameter(name) == DbFail("Missing value for SQL parameter", name)
NoOut == DbFail("not run", <<>>)

\* sqliteArgs[`:${key}`] = value for every own key of args
SqliteArgs(args) ==
    IF args.present THEN [k \in { <<":">> \o key : key \in DOMAIN args.map } |-> args.map[Tail(k)]]
    ELSE <<>>

\* Array.prototype.slice(0, end) for an integer end >= 0
Slice(rows, end) == SubSeq(rows, 1, IF Len(rows) < end THEN Len(rows) ELSE end)

\* A variant of ReadResult that reports a result of exactly `limit` rows as truncated
ReadResultAtLimit(rows, limit) == [rows |-> Slice(rows, limit), truncated |-> Len(rows) >= limit]

\* The expectResult branch of executePostgres, executeSqlite and executeMysql:
\* truncated = rows.length > limit, rows = rows.slice(0, limit)
ReadResult(rows, limit) == [rows |-> Slice(rows, limit), truncated |-> Len(rows) > limit]

executePostgres(sql, args) ==
    LET bound == bindPostgresParameters(sql, args)
    IN  IF bound.ok THEN Send(DriverQuery("postgres", bound.text, bound.values, FALSE))
        ELSE MissingParameter(bound.missing)

executeSqlite(sql, args) == Send(DriverQuery("sqlite", sql, SqliteArgs(args), TRUE))

executeMysql(sql, args) ==
    LET bound == bindMysqlParameters(sql, args)
    IN  IF bound.ok THEN Send(DriverQuery("mysql", bound.text, bound.values, FALSE))
        ELSE MissingParameter(bound.missing)

executeSql(config, sql, args) ==
    IF config.driver = "postgres" THEN executePostgres(sql, args)
    ELSE IF config.driver = "sqlite" THEN executeSqlite(sql, args)
    ELSE IF config.driver = "mysql" THEN executeMysql(sql, args)
    ELSE DbFail("Unsupported database driver", <<>>)

explainPostgres(sql, args, analyze) ==
    LET bound == bindPostgresParameters(sql, args)
        prefix == IF analyze THEN Chars("EXPLAIN (ANALYZE, FORMAT JSON) ")
                  ELSE Chars("EXPLAIN (FORMAT JSON) ")
    IN  IF bound.ok THEN Send(DriverQuery("postgres", prefix \o bound.text, bound.values, FALSE))
        ELSE MissingParameter(bound.missing)

explainSqlite(sql, args, analyze) ==
    LET explainCommand == IF analyze THEN Chars("EXPLAIN") ELSE Chars("EXPLAIN QUERY PLAN")
        replacement == IF ~ArgsEmpty(args) THEN replaceSqliteNamedParameters(sql, args)
                       ELSE BindOk(sql, <<>>, <<>>)
    IN  IF replacement.ok
        THEN Send(DriverQuery("sqlite", explainCommand \o <<" ">> \o replacement.text,
                              replacement.values, FALSE))
        ELSE MissingParameter(replacement.missing)

explainMysql(sql, args, analyze) ==
    LET bound == bindMysqlParameters(sql, args)
        explainFormat == IF analyze THEN Chars("EXPLAIN ANALYZE") ELSE Chars("EXPLAIN FORMAT=JSON")
    IN  IF bound.ok
        THEN Send(DriverQuery("mysql", explainFormat \o <<" ">> \o bound.text, bound.values, FALSE))
        ELSE MissingParameter(bound.missing)

explainQuery(config, sql, args, analyze) ==
    IF config.driver = "postgres" THEN explainPostgres(sql, args, analyze)
    ELSE IF config.driver = "sqlite" THEN explainSqlite(sql, args, analyze)
    ELSE IF config.driver = "mysql" THEN explainMysql(sql, args, analyze)
    ELSE DbFail("Unsupported database driver", <<>>)

\* An optional string of a request: left out, or given
NoName == [present |-> FALSE, value |-> <<>>]
Name(n) == [present |-> TRUE, value |-> Chars(n)]

\* `schema ? .. : ..`: a string that is given and not empty
Truthy(name) == name.present /\ name.value # <<>>

\* listTables(config, schema) up to the driver call: the catalogue query, with
\* the schema as its parameter when one is given
listTables(config, schema) ==
    IF config.driver \in {"postgres", "mysql"}
    THEN Send(DriverQuery(config.driver, Chars("information_schema.tables"),
                          IF Truthy(schema) THEN <<schema.value>> ELSE <<>>, FALSE))
    ELSE IF config.driver = "sqlite"
    THEN Send(DriverQuery("sqlite", Chars("sqlite_master"), <<>>, FALSE))
    ELSE DbFail("Unsupported database driver", <<>>)

\* splitTableIdentifier(table, schema): <<schema, table>>
splitTableIdentifier(table, schema) ==
    IF Includes(table, ".")
    THEN LET parts == SplitLimit(table, ".", 2)
         IN  <<[present |-> TRUE, value |-> parts[1]], parts[2]>>
    ELSE <<schema, table>>

\* describeTable(config, table, schema) up to the driver call that reads the
\* columns: the catalogue query with the schema and the table as parameters
\* (Postgres defaults the schema to public, MySQL asks the server for its
\* database first, SQLite takes the table alone)
describeTable(config, table, schema) ==
    LET resolved == splitTableIdentifier(table, schema)
    IN  IF config.driver = "postgres"
        THEN Send(DriverQuery("postgres", Chars("information_schema.columns"),
                              <<IF resolved[1].present THEN resolved[1].value ELSE Chars("public"),
                                resolved[2]>>, FALSE))
        ELSE IF config.driver = "sqlite"
        THEN Send(DriverQuery("sqlite", Chars("PRAGMA table_info"), <<resolved[2]>>, FALSE))
        ELSE IF config.driver = "mysql"
        THEN Send(DriverQuery("mysql", Chars("information_schema.columns"),
                              <<IF Truthy(resolved[1]) THEN resolved[1].value ELSE Chars("DATABASE()"),
                                resolved[2]>>, FALSE))
        ELSE DbFail("Unsupported database driver", <<>>)

----------------------------------------------------------------------------
(* routes.ts and the MCP server: the handlers of db.execute and db.explain *)

MaxRows == 2

\* resolveDatabaseConfig(bodyUrl): bodyUrl ?? settings.dbUrl
resolveDatabaseConfig(s, bodyUrl) ==
    normalizeDatabaseUrl(IF bodyUrl.present THEN bodyUrl.url ELSE s.dbUrl)

\* result.rowCount of pg, changes of sqlite, affectedRows of mysql: a number, or
\* null / undefined when the driver reports none
NoCount == [present |-> FALSE, value |-> 0]
Count(n) == [present |-> TRUE, value |-> n]

\* A reply: the status and the reason of a failure; of a success the shape of
\* the body ("rows" for {rows, truncated}, "rowcount" for {rowcount}, "plan"
\* for an explain result) with its values, and (for the record) the rows and
\* the affected-row count the driver returned, which the reply was made from
Reply(status, detail) ==
    [status |-> status, shape |-> IF status = "none" THEN "none" ELSE "detail",
     detail |-> detail, rows |-> <<>>, truncated |-> FALSE, rowcount |-> 0,
     fetched |-> <<>>, reported |-> NoCount]
NoReply == Reply("none", "")

\* auditLog(trace_id, span_id, tool, context): the event that is logged, with
\* the keys of its context and the value of context.error ("" when absent)
auditLog(tool, category, keys, error) ==
    [tool |-> tool, category |-> category, keys |-> {"category", "duration_ms"} \cup keys,
     error |-> error]

\* The context of a failure: { category, duration_ms, error }
auditError(tool, category, error) == auditLog(tool, category, {"error"}, error)

\* What a handler has computed when it replies or calls the database layer:
\* the outcome of enforceSingleStatement, the category it classified the
\* statement as, the function of db.ts it called and that call's row limit
NoRun == [single |-> NoResult, category |-> "none", call |-> "none", limit |-> 0]

\* A variant of TimerArmed that arms the timer only above the default timeout
TimerArmedAboveDefault(timeoutMs) == timeoutMs > 20000

\* withTimeout(promise, timeoutMs): whether a timer races the promise
TimerArmed(timeoutMs) == timeoutMs > 0

\* The handler replies without calling the database layer; `audit` holds the
\* events it logged
Finish(reply, single, category) ==
    [reply |-> reply, out |-> NoOut, audit |-> <<>>,
     run |-> [single |-> single, category |-> category, call |-> "none", limit |-> 0]]

\* The handler called auditLog with an error context before it replied
Audited(o, tool, category, error) ==
    [o EXCEPT !.audit = Append(o.audit, auditError(tool, category, error))]

\* The handler awaits withTimeout(executeSql(..)) / withTimeout(explainQuery(..)):
\* `out` is the query the function hands to its driver once it holds a
\* connection, or the DatabaseError it throws then
Call(fn, out, single, category, limit) ==
    [reply |-> NoReply, out |-> out, audit |-> <<>>,
     run |-> [single |-> single, category |-> category, call |-> fn, limit |-> limit]]

AllowlistMessage == "SQL references tables outside the allowlist"

\* The body schemas of the two routes, which the framework applies before the
\* handler: allow_write and analyze are booleans, row_limit an integer >= 1
SchemaRejects(body) ==
    \/ body.allow_write = "yes"
    \/ body.analyze = "yes"
    \/ body.row_limit.present /\ (~body.row_limit.integer \/ body.row_limit.value < 1)

\* The message of the framework's 400 reply: the first property that fails
SchemaMessage(body) ==
    IF body.allow_write = "yes" THEN "body/allow_write must be boolean"
    ELSE IF body.analyze = "yes" THEN "body/analyze must be boolean"
    ELSE IF ~body.row_limit.integer THEN "body/row_limit must be integer"
    ELSE "body/row_limit must be >= 1"

\* !Number.isInteger(row_limit) || row_limit <= 0, for a row_limit that is given
\* (in the MCP tool also typeof row_limit !== "number")
InvalidRowLimit(row_limit) == row_limit.present /\ (~row_limit.integer \/ row_limit.value <= 0)

\* A single gate, which C2 must tell from HttpWriteGate: a write is refused
\* only when both the server flag and the request flag are off
HttpWriteGateEither(s, body, category) ==
    category = "write" /\ (~s.allowWrites /\ body.allow_write \in {"false", "absent"})

\* category === WRITE && (!settings.allowWrites || !body.allow_write)
HttpWriteGate(s, body, category) ==
    category = "write" /\ (~s.allowWrites \/ body.allow_write \in {"false", "absent"})

\* category === DDL && !settings.allowDdl
HttpDdlGate(s, body, category) == category = "ddl" /\ ~s.allowDdl

\* A variant of EffectiveLimit that takes the request's row_limit as it is
EffectiveLimitUncapped(s, row_limit) == IF ~row_limit.present THEN s.maxRows ELSE row_limit.value

\* effectiveLimit = Math.min(body.row_limit, settings.maxRows)
EffectiveLimit(s, row_limit) ==
    IF ~row_limit.present THEN s.maxRows
    ELSE IF row_limit.value < s.maxRows THEN row_limit.value ELSE s.maxRows

\* POST /tools/db.execute, from classifyStatement on
HttpExecuteGates(s, body, config, single, category) ==
    IF category = "unknown"
        THEN Audited(Finish(Reply("400", "Unsupported SQL statement"), single, category),
                     "db.execute", "unknown", "unsupported")
    ELSE IF HttpDdlGate(s, body, category)
        THEN Audited(Finish(Reply("403", "DDL statements are disabled"), single, category),
                     "db.execute", category, "ddl_disabled")
    ELSE IF HttpWriteGate(s, body, category)
        THEN Audited(Finish(Reply("403",
                                  "Write operations require explicit server and request approval"),
                            single, category),
                     "db.execute", category, "write_disabled")
    ELSE IF InvalidRowLimit(body.row_limit)
        THEN Audited(Finish(Reply("400", "row_limit must be a positive integer"), single, category),
                     "db.execute", category, "invalid_row_limit")
    ELSE Call("executeSql", executeSql(config, single.text, body.args), single, category,
              EffectiveLimit(s, body.row_limit))

\* The try block of both routes: resolveDatabaseConfig, enforceSingleStatement
\* and validateAllowlist; a SQLValidationError replies 403, any other error 400
HttpPrelude(s, body, config, single) ==
    IF ~config.ok THEN Finish(Reply("400", config.error), NoResult, "none")
    ELSE IF ~single.ok THEN Finish(Reply("403", single.error), single, "none")
    ELSE IF ~validateAllowlist(single.text, s.allowlistTables).ok
        THEN Finish(Reply("403", AllowlistMessage), single, "none")
    ELSE Finish(NoReply, single, "none")

\* The schema and the API key check of both routes
HttpEntry(s, body) ==
    IF SchemaRejects(body) THEN Reply("400", SchemaMessage(body))
    ELSE IF s.requireApiKey /\ ~body.keyOk THEN Reply("401", "Invalid API key")
    ELSE NoReply

HttpExecuteBody(s, body, config, single, prelude) ==
    IF prelude.reply # NoReply
        THEN Audited(prelude, "db.execute", "unknown", prelude.reply.detail)
    ELSE HttpExecuteGates(s, body, config, single, classifyStatement(single.text))

HttpExecuteTry(s, body, config, single) ==
    HttpExecuteBody(s, body, config, single, HttpPrelude(s, body, config, single))

\* POST /tools/db.execute
HttpExecute(s, body) ==
    IF SchemaRejects(body) THEN Finish(HttpEntry(s, body), NoResult, "none")
    ELSE IF HttpEntry(s, body) # NoReply
        THEN Audited(Finish(HttpEntry(s, body), NoResult, "none"),
                     "db.execute", "unknown", "unauthorized")
    ELSE HttpExecuteTry(s, body, resolveDatabaseConfig(s, body.db_url),
                        enforceSingleStatement(body.sql))

HttpExplainBody(s, body, config, single, prelude) ==
    IF prelude.reply # NoReply
        THEN Audited(prelude, "db.explain", "metadata", prelude.reply.detail)
    ELSE Call("explainQuery", explainQuery(config, single.text, body.args, body.analyze = "true"),
              single, "none", 0)

HttpExplainTry(s, body, config, single) ==
    HttpExplainBody(s, body, config, single, HttpPrelude(s, body, config, single))

\* POST /tools/db.explain
HttpExplain(s, body) ==
    IF SchemaRejects(body) THEN Finish(HttpEntry(s, body), NoResult, "none")
    ELSE IF HttpEntry(s, body) # NoReply
        THEN Audited(Finish(HttpEntry(s, body), NoResult, "none"),
                     "db.explain", "metadata", "unauthorized")
    ELSE HttpExplainTry(s, body, resolveDatabaseConfig(s, body.db_url),
                        enforceSingleStatement(body.sql))

\* category === WRITE: the two throws of db_execute
McpWriteGate(s, args, category) ==
    category = "write" /\ (~s.allowWrites \/ args.allow_write # "true")

McpWriteMessage(s) ==
    IF ~s.allowWrites THEN "Write operations disabled (set ALLOW_WRITES=true to enable)"
    ELSE "Write operation requires allow_write: true in request"

\* A gate that allow_write opens, which C4 must tell from McpDdlGate
McpDdlGateOrWrite(s, args, category) ==
    category = "ddl" /\ ~s.allowDdl /\ args.allow_write # "true"

\* category === DDL: the throw of db_execute
McpDdlGate(s, args, category) == category = "ddl" /\ ~s.allowDdl

\* db_execute from classifyStatement on
McpExecuteGates(s, args, config, single, category) ==
    IF category = "unknown"
        THEN Finish(Reply("isError", "SQL statement type not recognized"), single, category)
    ELSE IF McpWriteGate(s, args, category)
        THEN Finish(Reply("isError", McpWriteMessage(s)), single, category)
    ELSE IF McpDdlGate(s, args, category)
        THEN Finish(Reply("isError", "DDL operations disabled (set ALLOW_DDL=true to enable)"),
                    single, category)
    ELSE IF ~validateAllowlist(single.text, s.allowlistTables).ok
        THEN Finish(Reply("isError", AllowlistMessage), single, category)
    ELSE IF InvalidRowLimit(args.row_limit)
        THEN Finish(Reply("isError", "row_limit must be a positive integer"), single, category)
    ELSE Call("executeSql", executeSql(config, single.text, args.args), single, category,
              EffectiveLimit(s, args.row_limit))

\* The start of both tools: the sql parameter, resolveDatabaseConfig and
\* enforceSingleStatement. "isError" is the caught SQLValidationError or
\* DatabaseError, "thrown" an error the handler rethrows
McpPrelude(args, config, single) ==
    IF args.sql = <<>> THEN Finish(Reply("thrown", "sql parameter is required"), NoResult, "none")
    ELSE IF ~config.ok
        THEN Finish(Reply(IF config.class = "DatabaseError" THEN "isError" ELSE "thrown",
                          config.error), NoResult, "none")
    ELSE IF ~single.ok THEN Finish(Reply("isError", single.error), single, "none")
    ELSE Finish(NoReply, single, "none")

McpExecuteBody(s, args, config, single, prelude) ==
    IF prelude.reply # NoReply THEN prelude
    ELSE McpExecuteGates(s, args, config, single, classifyStatement(single.text))

McpExecuteTry(s, args, config, single) ==
    McpExecuteBody(s, args, config, single, McpPrelude(args, config, single))

\* The MCP tool db_execute
McpExecute(s, args) ==
    McpExecuteTry(s, args, resolveDatabaseConfig(s, args.db_url), enforceSingleStatement(args.sql))

McpExplainBody(s, args, config, single, prelude) ==
    IF prelude.reply # NoReply THEN prelude
    ELSE IF ~validateAllowlist(single.text, s.allowlistTables).ok
        THEN Finish(Reply("isError", AllowlistMessage), single, "none")
    ELSE Call("explainQuery", explainQuery(config, single.text, args.args, args.analyze = "true"),
              single, "none", 0)

McpExplainTry(s, args, config, single) ==
    McpExplainBody(s, args, config, single, McpPrelude(args, config, single))

\* The MCP tool db_explain
McpExplain(s, args) ==
    McpExplainTry(s, args, resolveDatabaseConfig(s, args.db_url), enforceSingleStatement(args.sql))

----------------------------------------------------------------------------
(* routes.ts and the MCP server: the handlers of db.tables and db.describe_table *)

\* normalizedAllowlist = new Set(settings.allowlistTables.map(toLowerCase))
normalizedAllowlist(s) == { ToLowerCase(s.allowlistTables[i]) : i \in 1..Len(s.allowlistTables) }

\* allowlistAliases(table)
allowlistAliases(table) ==
    LET lowered == ToLowerCase(table)
        parts == SplitLimit(lowered, ".", 2)
    IN  IF Includes(lowered, ".")
        THEN {lowered, parts[2], parts[1] \o <<".">> \o parts[2]}
        ELSE {lowered, Chars("public.") \o lowered}

\* ensureTableAllowed(table, schema) returns (TRUE) or throws
\* SQLValidationError("Table not allowlisted") (FALSE)
ensureTableAllowed(s, table, schema) ==
    LET candidate == IF Includes(table, ".") THEN table
                     ELSE IF Truthy(schema) THEN schema.value \o <<".">> \o table
                     ELSE table
    IN  \/ normalizedAllowlist(s) = {}
        \/ allowlistAliases(candidate) \cap normalizedAllowlist(s) # {}

\* tables.filter(..) of db.tables: the tables one of whose aliases is allowlisted
FilterTables(s, tables) ==
    LET listed(table) == allowlistAliases(table) \cap normalizedAllowlist(s) # {}
    IN  IF normalizedAllowlist(s) = {} THEN tables ELSE SelectSeq(tables, listed)

\* POST /tools/db.tables
HttpTables(s, body) ==
    LET config == resolveDatabaseConfig(s, body.db_url)
    IN  IF s.requireApiKey /\ ~body.keyOk
            THEN Audited(Finish(Reply("401", "Invalid API key"), NoResult, "none"),
                         "db.tables", "metadata", "unauthorized")
        ELSE IF ~config.ok
            THEN Audited(Finish(Reply("400", config.error), NoResult, "none"),
                         "db.tables", "metadata", config.error)
        ELSE Call("listTables", listTables(config, body.schema), NoResult, "metadata", 0)

\* POST /tools/db.describe_table
HttpDescribe(s, body) ==
    LET config == resolveDatabaseConfig(s, body.db_url)
    IN  IF ~body.table.present
            THEN Finish(Reply("400", "body must have required property 'table'"), NoResult, "none")
        ELSE IF s.requireApiKey /\ ~body.keyOk
            THEN Audited(Finish(Reply("401", "Invalid API key"), NoResult, "none"),
                         "db.describe_table", "metadata", "unauthorized")
        ELSE IF ~config.ok
            THEN Audited(Finish(Reply("400", config.error), NoResult, "none"),
                         "db.describe_table", "metadata", config.error)
        ELSE IF ~ensureTableAllowed(s, body.table.value, body.schema)
            THEN Audited(Finish(Reply("403", "Table not allowlisted"), NoResult, "none"),
                         "db.describe_table", "metadata", "Table not allowlisted")
        ELSE Call("describeTable", describeTable(config, body.table.value, body.schema),
                  NoResult, "metadata", 0)

\* The MCP tool db_tables
McpTables(s, args) ==
    LET config == resolveDatabaseConfig(s, args.db_url)
    IN  IF ~config.ok
            THEN Finish(Reply(IF config.class = "DatabaseError" THEN "isError" ELSE "thrown",
                              config.error), NoResult, "none")
        ELSE Call("listTables", listTables(config, args.schema), NoResult, "metadata", 0)

\* The MCP tool db_describe_table
McpDescribe(s, args) ==
    LET config == resolveDatabaseConfig(s, args.db_url)
    IN  IF ~Truthy(args.table)
            THEN Finish(Reply("thrown", "table parameter is required"), NoResult, "none")
        ELSE IF ~config.ok
            THEN Finish(Reply(IF config.class = "DatabaseError" THEN "isError" ELSE "thrown",
                              config.error), NoResult, "none")
        ELSE IF ~ensureTableAllowed(s, args.table.value, args.schema)
            THEN Finish(Reply("isError", "Table not allowlisted"), NoResult, "none")
        ELSE Call("describeTable", describeTable(config, args.table.value, args.schema),
                  NoResult, "metadata", 0)

----------------------------------------------------------------------------
(* Inputs of the guard: statements with the tables they name *)

\* The longest comma-separated FROM list among the inputs
MaxFromItems == 2

\* A table reference as written: schema (<<>> when absent), table, quoting style
Ref(schema, table, style) == [schema |-> Chars(schema), table |-> Chars(table), style |-> style]

Quote(name, style) ==
    IF style = "dq" THEN <<"\"">> \o name \o <<"\"">>
    ELSE IF style = "bt" THEN <<Backtick>> \o name \o <<Backtick>>
    ELSE IF style = "br" THEN <<"[">> \o name \o <<"]">>
    ELSE IF style = "upper" THEN ToUpperCase(name)
    ELSE name

RenderRef(r) ==
    IF r.schema = <<>> THEN Quote(r.table, r.style)
    ELSE Quote(r.schema, r.style) \o <<".">> \o Quote(r.table, r.style)

\* References used alone after a keyword
TableRefs ==
    { Ref(sc, t, st) : sc \in {"", "public", "o"}, t \in {"u", "s"}, st \in {"bare", "dq"} }
    \cup { Ref("", t, st) : t \in {"u", "s"}, st \in {"bt", "br", "upper"} }
    \cup { Ref("", "u.s", "dq"), Ref("public.u", "s", "dq"), Ref("o", "s", "bt"),
           Ref("Public", "Users", "dq"), Ref("", "a\"\"b", "dq") }

\* References used as items of a comma-separated FROM list
ListRefs == { Ref("", "u", "bare"), Ref("", "s", "bare"), Ref("o", "s", "bare"), Ref("public", "u", "dq") }

RECURSIVE RefLists(_)
RefLists(n) ==
    IF n = 0 THEN {<<>>}
    ELSE LET shorter == RefLists(n - 1)
         IN  shorter \cup { Append(l, r) : l \in {x \in shorter : Len(x) = n - 1}, r \in ListRefs }

RECURSIVE RenderList(_)
RenderList(l) ==
    IF Len(l) = 1 THEN RenderRef(l[1])
    ELSE RenderRef(l[1]) \o Chars(", ") \o RenderList(Tail(l))

\* The table a written reference names: lower-cased, schema "public" when absent
Named(r) ==
    [schema |-> IF r.schema = <<>> THEN Chars("public") ELSE ToLowerCase(r.schema),
     table |-> ToLowerCase(r.table),
     explicit |-> r.schema # <<>>]

Input(text, refs) == [sql |-> text, tables |-> {Named(r) : r \in refs}]

\* The statements a single reference is put into
Templates == {"from", "join", "joins", "delete", "update", "insert", "truncate", "drop"}

Statement(template, r) ==
    CASE template = "from" -> Chars("select 1 from ") \o RenderRef(r)
      [] template = "join" -> Chars("SELECT 1 FROM u JOIN ") \o RenderRef(r)
      [] template = "joins" -> Chars("SELECT 1 FROM s JOIN ") \o RenderRef(r)
      [] template = "delete" -> Chars("DELETE FROM ") \o RenderRef(r)
      [] template = "update" -> Chars("Update ") \o RenderRef(r) \o Chars(" SET x=1;")
      [] template = "insert" -> Chars("INSERT INTO ") \o RenderRef(r) \o Chars(" VALUES (1)")
      [] template = "truncate" -> Chars(" TRUNCATE  TABLE ") \o RenderRef(r) \o Chars(" ; ")
      [] template = "drop" -> Chars("DROP TABLE ") \o RenderRef(r)

\* The references of Statement(template, r)
StatementRefs(template, r) ==
    IF template = "join" THEN {Ref("", "u", "bare"), r}
    ELSE IF template = "joins" THEN {Ref("", "s", "bare"), r}
    ELSE {r}

GuardInputs ==
    { Input(Chars("SELECT * FROM ") \o RenderList(l), SeqToSet(l)) : l \in RefLists(MaxFromItems) \ {<<>>} }
    \cup { Input(Statement(t, r), StatementRefs(t, r)) : t \in Templates, r \in TableRefs }
    \cup { Input(Chars(t), {}) : t \in
            { "", "  ", ";", " ; ", ";;", "SELECT 1", "SELECT 1;", "SELECT 1;;", "SELECT 1; ;",
              "SELECT ';'", "SELECT ';';", "SELECT 1; DROP TABLE u", "select 1 ;\n",
              "EXPLAIN SELECT 1", "\twith c as (select 1) select 2", "TRUNCATE u",
              "VACUUM", "selectx 1", "drop table u", "MERGE INTO u USING s ON 1=1",
              "CREATE TABLE s (a int)", "alter table u add c int", "RENAME TABLE u TO s",
              "REINDEX", "Reindex u", "WITH", "select\n1", "SELECT(1)", "DROP\tTABLE u",
              "SELECT 1 -- DROP", "INSERT", "insert;", "x SELECT 1", "SELECT", "select 2",
              "SELECT * FROM \"\".\"s\"", "DELETE FROM \"\".s" } }

\* Allowlists: sequences of entries, as configured
GuardAllowlists ==
    { <<>>, <<Chars("u")>>, <<Chars("public.u")>>, <<Chars("O.S"), Chars("u")>>, <<Chars("o.u")>> }

----------------------------------------------------------------------------
(* Inputs of the binders: statements put together from lexical segments *)

MaxSegments == 2

\* A placeholder, and the regions a placeholder can appear in
Segments ==
    { Chars(":a"), Chars(":b"), Chars("x::a"), Chars(":toString"),
      Chars("':a'"), Chars("''"), Chars("'"), Chars("'\\''"),
      Chars("\":a\""), <<Backtick>> \o Chars(":a") \o <<Backtick>>, Chars("[:a]"),
      Chars("-- :a\n"), Chars("# :a\n"), Chars("/*:a*/"), Chars("$$:a$$") }

SegmentLists == UNION { [1..n -> Segments] : n \in 1..MaxSegments }

DbInputs == { Join(ss, <<" ">>) : ss \in SegmentLists }

ArgMaps ==
    { NoArgs, ArgsOf(<<>>), ArgsOf(Chars("a") :> 1), ArgsOf(Chars("a") :> 1 @@ Chars("b") :> 2) }

Drivers == {"postgres", "sqlite", "mysql"}

\* Statements that use a placeholder more than once, bound to two values
ReuseInputs ==
    { Chars(":a :b :a"), Chars(":b, :a, :b"), Chars("a = :a AND b = :a"),
      Chars("SELECT $2, :b"), Chars(":b::int + :a, '?'"), Chars(":a:a :toString") }

TwoArgs == ArgsOf(Chars("a") :> 1 @@ Chars("b") :> 2)

\* Dollar-quoted bodies: up to MaxDollarBody pieces between an opening tag and
\* (or without) the same tag again, with a placeholder after it
MaxDollarBody == 2

DollarTags == { Chars("$$"), Chars("$t$") }

DollarPieces ==
    { Chars(":a"), Chars("'"), Chars("\""), Chars("--"), Chars("/*"), Chars("$x$"), Chars("$$"),
      Chars("$t$") }

DollarBodies == UNION { [1..n -> DollarPieces] : n \in 0..MaxDollarBody }

DollarInputs ==
    { tag \o Join(body, <<>>) \o tag \o Chars(" :a") : tag \in DollarTags, body \in DollarBodies }
    \cup { tag \o Join(body, <<>>) \o Chars(" :a") : tag \in DollarTags, body \in DollarBodies }
    \cup { Chars(":b $t_1$:a$t_1$:a"), Chars("x$y$ :a $y$ :b"), Chars("'$$' :a $$ :b"),
           Chars("$$ :c $$ :a"), Chars("$t$':a$x$$t$ :a") }

\* Texts of up to MaxEscapeLen tokens over quotes, a backslash and a placeholder
MaxEscapeLen == 5

EscapeTokens == { Chars("'"), Chars("\""), Chars("\\"), Chars(":a") }

EscapeInputs == { Join(ts, <<>>) : ts \in UNION { [1..n -> EscapeTokens] : n \in 1..MaxEscapeLen } }

\* The calls of the database layer: every statement of DbInputs under every
\* driver and argument map, and the statements picked for one dialect
DbCalls ==
    [driver : Drivers, sql : DbInputs, args : ArgMaps, analyze : BOOLEAN]
    \cup [driver : Drivers, sql : ReuseInputs, args : {TwoArgs}, analyze : {FALSE}]
    \cup [driver : {"postgres"}, sql : DollarInputs, args : {TwoArgs}, analyze : {FALSE}]
    \cup [driver : {"mysql"}, sql : EscapeInputs, args : {TwoArgs}, analyze : {FALSE}]

----------------------------------------------------------------------------
(* The three parts of the model are run one at a time: the guard on its own,
   the database layer on its own, and the server that calls both. A part
   that is not run stays in its idle state. *)

NoBound == BindOk(<<>>, <<>>, <<>>)
NoCall == [driver |-> "none", sql |-> <<>>, args |-> NoArgs, analyze |-> FALSE]
NoRequest == [transport |-> "none", tool |-> "none", body |-> <<>>]

GuardIdle ==
    /\ gSql = <<>> /\ gTables = {} /\ gAllow = <<>> /\ gPc = "off"
    /\ gSingle = NoResult /\ gCategory = "none" /\ gVerdict = NoResult
    /\ gLastIndex = FreshLastIndex

DbIdle == dReq = NoCall /\ dPc = "off" /\ dPath = "none" /\ dBound = NoBound /\ dOut = NoOut

ServerIdle ==
    /\ settings = <<>> /\ req = NoRequest /\ pc = "off"
    /\ run = NoRun /\ issued = <<>> /\ resp = NoReply
    /\ pending = NoOut /\ op = "none" /\ sent = 0 /\ crashed = FALSE /\ audit = <<>>
    /\ borrowed = 0 /\ released = 0

PoolIdle ==
    /\ postgresPools = <<>> /\ sqliteDbs = <<>> /\ mysqlPools = <<>>
    /\ created = <<>> /\ callers = <<>> /\ settled = <<>>

EnvIdle == env = <<>> /\ cachedSettings = <<>> /\ snapshot = <<>> /\ getCalls = 0

----------------------------------------------------------------------------
(* The database layer as a state machine: one call of a binder, of executeSql
   or of explainQuery *)

DbInit ==
    /\ dReq \in DbCalls
    /\ dPc = "input" /\ dPath = "none" /\ dBound = NoBound /\ dOut = NoOut
    /\ GuardIdle /\ ServerIdle /\ PoolIdle /\ EnvIdle

\* The binder of the call's dialect
Bind(driver, sql, args) ==
    IF driver = "postgres" THEN bindPostgresParameters(sql, args)
    ELSE IF driver = "mysql" THEN bindMysqlParameters(sql, args)
    ELSE replaceSqliteNamedParameters(sql, args)

\* bindPostgresParameters / bindMysqlParameters(sql, args), or
\* replaceSqliteNamedParameters(sql, args), whose args is never undefined
DBind ==
    /\ dPc = "input"
    /\ dReq.driver = "sqlite" => dReq.args.present
    /\ dBound' = Bind(dReq.driver, dReq.sql, dReq.args)
    /\ dPath' = "bind" /\ dPc' = "done"
    /\ UNCHANGED <<dReq, dOut>>
    /\ UNCHANGED <<guardVars, serverVars, poolVars, envVars>>

\* executeSql(config, sql, args, expectResult, limit) up to the driver call
DExecute ==
    /\ dPc = "input"
    /\ dOut' = executeSql([driver |-> dReq.driver], dReq.sql, dReq.args)
    /\ dPath' = "execute" /\ dPc' = "done"
    /\ UNCHANGED <<dReq, dBound>>
    /\ UNCHANGED <<guardVars, serverVars, poolVars, envVars>>

\* explainQuery(config, sql, args, analyze) up to the driver call
DExplain ==
    /\ dPc = "input"
    /\ dOut' = explainQuery([driver |-> dReq.driver], dReq.sql, dReq.args, dReq.analyze)
    /\ dPath' = "explain" /\ dPc' = "done"
    /\ UNCHANGED <<dReq, dBound>>
    /\ UNCHANGED <<guardVars, serverVars, poolVars, envVars>>

----------------------------------------------------------------------------
(* Inputs of the server: settings and tool calls *)

QueryTimeoutMs == 20000

\* Every policy under the default timeout, and the open policy under a
\* QUERY_TIMEOUT_SEC that floors to 0 ms
Settings ==
    [dbUrl : {Chars("sqlite:///./dev.db")}, maxRows : {MaxRows}, queryTimeoutMs : {QueryTimeoutMs},
     allowWrites : BOOLEAN, allowDdl : BOOLEAN,
     allowlistTables : {<<>>, <<Chars("u")>>}, requireApiKey : BOOLEAN]
    \cup
    [dbUrl : {Chars("sqlite:///./dev.db")}, maxRows : {MaxRows}, queryTimeoutMs : {0},
     allowWrites : {TRUE}, allowDdl : {TRUE}, allowlistTables : {<<>>}, requireApiKey : {FALSE}]

ServerSql ==
    { Chars("SELECT 1"), Chars("SELECT * FROM u"), Chars("select a from s"), Chars("SELECT :a"),
      Chars("INSERT INTO u VALUES (1)"), Chars("DELETE FROM u"), Chars(" delete from s; "),
      Chars("DROP TABLE u"), Chars("create table s (a int)"),
      Chars("PRAGMA x"), Chars("EXPLAIN SELECT 1"),
      <<>>, Chars("SELECT ';'"), Chars("SELECT 1; DROP TABLE u"), Chars("DELETE FROM u; SELECT 1") }

\* The statements the other fields of a call are varied on
ProbeSql == { Chars("SELECT 1"), Chars("SELECT :a"), Chars("DELETE FROM u"), Chars("SELECT :a, :b") }

Absent == [present |-> FALSE, url |-> <<>>]
Url(u) == [present |-> TRUE, url |-> Chars(u)]
DbUrls == { Absent, Url("postgres://h/d"), Url("mysql://h/d"), Url("ftp://h") }

\* row_limit: left out, an integer, or (integer = FALSE) the fraction value + 1/2
NoLimit == [present |-> FALSE, value |-> 0, integer |-> TRUE]
RowLimits ==
    { NoLimit }
    \cup { [present |-> TRUE, value |-> v, integer |-> TRUE] : v \in {0 - 1, 0, 1, MaxRows, MaxRows + 1} }
    \cup { [present |-> TRUE, value |-> 1, integer |-> FALSE] }

\* A flag of the request: true, false, left out, or a value that is no boolean
Flags == {"true", "false", "absent", "yes"}

ServerArgs == { NoArgs, ArgsOf(Chars("a") :> 1) }

\* Every statement under every value of allow_write, and the probe statements
\* under every connection string, argument map, row limit and API key
ExecuteBodies ==
    [sql : ServerSql, db_url : {Absent, Url("postgres://h/d")}, args : {NoArgs},
     allow_write : Flags, analyze : {"absent"}, row_limit : {NoLimit}, keyOk : {TRUE}]
    \cup
    [sql : ProbeSql, db_url : DbUrls, args : ServerArgs, allow_write : {"true"},
     analyze : {"absent"}, row_limit : RowLimits, keyOk : BOOLEAN]

\* Every statement under every value of analyze, and the probe statements
\* under every connection string, argument map and API key
ExplainBodies ==
    [sql : ServerSql, db_url : {Absent, Url("postgres://h/d")}, args : {NoArgs},
     allow_write : {"absent"}, analyze : Flags, row_limit : {NoLimit}, keyOk : {TRUE}]
    \cup
    [sql : ProbeSql, db_url : DbUrls, args : ServerArgs, allow_write : {"absent"},
     analyze : {"true"}, row_limit : {NoLimit}, keyOk : BOOLEAN]

\* The fields of a metadata call; those of the other tools are left out
MetadataBody(db_url, schema, table, keyOk) ==
    [sql |-> <<>>, db_url |-> db_url, args |-> NoArgs, allow_write |-> "absent",
     analyze |-> "absent", row_limit |-> NoLimit, keyOk |-> keyOk, schema |-> schema,
     table |-> table]

\* db.tables under every connection string, with and without a schema
TablesBodies ==
    { MetadataBody(u, sc, NoName, k) : u \in DbUrls, sc \in {NoName, Name("o")}, k \in BOOLEAN }

\* db.describe_table of every table under every schema, and of one table
\* under every connection string and API key
DescribeBodies ==
    { MetadataBody(u, sc, t, TRUE) :
        u \in {Absent, Url("postgres://h/d")}, sc \in {NoName, Name("o"), Name("public")},
        t \in {NoName, Name(""), Name("u"), Name("U"), Name("s"), Name("o.u")} }
    \cup { MetadataBody(u, NoName, Name("u"), k) : u \in DbUrls, k \in BOOLEAN }

\* What the catalogue may list: schema.table from Postgres and MySQL, bare
\* names from SQLite
TableLists(driver) ==
    IF driver = "sqlite" THEN { <<>>, <<Chars("s")>>, <<Chars("u"), Chars("s")>> }
    ELSE { <<>>, <<Chars("o.s")>>, <<Chars("public.u"), Chars("o.u"), Chars("public.s")>> }

----------------------------------------------------------------------------
(* The server as a state machine: a tool call runs its handler up to the
   await of withTimeout; the database function waits for a connection, binds,
   hands its query to the driver and settles, or the timer of withTimeout
   fires first and the function goes on without the handler; then the server
   takes the next call *)

Init ==
    /\ settings \in Settings
    /\ req = NoRequest /\ pc = "idle" /\ run = NoRun /\ issued = <<>> /\ resp = NoReply
    /\ pending = NoOut /\ op = "none" /\ sent = 0 /\ crashed = FALSE /\ audit = <<>>
    /\ borrowed = 0 /\ released = 0
    /\ GuardIdle /\ DbIdle /\ PoolIdle /\ EnvIdle

\* The handler ran on the call: it has replied, or it awaits the race of its
\* database function and the timer
Handle(transport, tool, body, o) ==
    /\ req' = [transport |-> transport, tool |-> tool, body |-> body]
    /\ run' = o.run
    /\ pending' = o.out
    /\ issued' = <<>>
    /\ resp' = o.reply
    /\ audit' = o.audit
    /\ pc' = IF o.run.call = "none" THEN "replied" ELSE "awaiting"
    /\ op' = IF o.run.call = "none" THEN "none" ELSE "connect"
    /\ sent' = IF o.run.call = "none" THEN 1 ELSE 0
    /\ borrowed' = 0 /\ released' = 0
    /\ UNCHANGED <<settings, crashed, guardVars, dbVars, poolVars, envVars>>

HttpExecuteCall ==
    /\ pc = "idle"
    /\ \E body \in ExecuteBodies : Handle("http", "db.execute", body, HttpExecute(settings, body))

HttpExplainCall ==
    /\ pc = "idle"
    /\ \E body \in ExplainBodies : Handle("http", "db.explain", body, HttpExplain(settings, body))

\* The MCP transport has no API key
McpExecuteCall ==
    /\ pc = "idle"
    /\ \E args \in ExecuteBodies :
          /\ args.keyOk
          /\ Handle("mcp", "db_execute", args, McpExecute(settings, args))

McpExplainCall ==
    /\ pc = "idle"
    /\ \E args \in ExplainBodies :
          /\ args.keyOk
          /\ Handle("mcp", "db_explain", args, McpExplain(settings, args))

HttpTablesCall ==
    /\ pc = "idle"
    /\ \E body \in TablesBodies : Handle("http", "db.tables", body, HttpTables(settings, body))

HttpDescribeCall ==
    /\ pc = "idle"
    /\ \E body \in DescribeBodies :
          Handle("http", "db.describe_table", body, HttpDescribe(settings, body))

McpTablesCall ==
    /\ pc = "idle"
    /\ \E args \in TablesBodies :
          /\ args.keyOk
          /\ Handle("mcp", "db_tables", args, McpTables(settings, args))

McpDescribeCall ==
    /\ pc = "idle"
    /\ \E args \in DescribeBodies :
          /\ args.keyOk
          /\ Handle("mcp", "db_describe_table", args, McpDescribe(settings, args))

\* rowcount: result.rowCount ?? 0, changes if it is a number, affectedRows ?? 0
WriteResult(rows, count) == IF count.present THEN count.value ELSE 0

\* A variant of ResultShape that follows what the driver returned
ResultShapeOfDriver(category, rows) == IF rows # <<>> THEN "rows" ELSE "rowcount"

\* The shape of a successful execute: expectResult = (category === READ)
ResultShape(category, rows) == IF category = "read" THEN "rows" ELSE "rowcount"

\* The reply to a call whose driver returned `rows` and the affected-row count
\* `count`: a read (expectResult) replies ReadResult, a write or a DDL
\* statement the rowcount, an explain the plan rows as they are
Success(status, call, category, rows, count, limit) ==
    LET read == ReadResult(rows, limit)
        ok == [Reply(status, "") EXCEPT !.fetched = rows, !.reported = count]
    IN  IF call = "executeSql" /\ ResultShape(category, rows) = "rows"
        THEN [ok EXCEPT !.shape = "rows", !.rows = read.rows, !.truncated = read.truncated]
        ELSE IF call = "executeSql"
        THEN [ok EXCEPT !.shape = "rowcount", !.rowcount = WriteResult(rows, count)]
        ELSE IF call = "explainQuery"
        THEN [ok EXCEPT !.shape = "plan", !.rows = rows]
        ELSE IF call = "listTables"
        THEN [ok EXCEPT !.shape = "tables", !.rows = FilterTables(settings, rows)]
        ELSE IF status = "200" /\ rows = <<>>
        THEN [Reply("404", "Table not found") EXCEPT !.fetched = rows]
        ELSE [ok EXCEPT !.shape = "columns", !.rows = rows]

\* The context of the audit event of a success
SuccessKeys(call, category) ==
    IF call = "explainQuery" THEN {"db", "analyze"}
    ELSE IF call = "listTables" THEN {"db", "tables"}
    ELSE IF call = "describeTable" THEN {"db", "columns"}
    ELSE IF category = "read" THEN {"db", "rows", "truncated"}
    ELSE {"db", "rowcount"}

\* The category of the audit events after the gates
AuditCategory(tool, category) == IF tool = "db.explain" THEN "metadata" ELSE category

\* The events a handler logs when its await settles: the routes call auditLog
\* on each path, the MCP tools log nothing
SettleAudit(transport, tool, category, keys, error) ==
    IF transport = "http" THEN <<auditLog(tool, AuditCategory(tool, category), keys, error)>>
    ELSE <<>>

\* The reply of the catch block to an error with `message`: an error whose
\* message is "timeout" is answered as the timeout; of the others the routes
\* reply 400, and the MCP handler returns isError for a SQLValidationError or
\* a DatabaseError and rethrows any other error
CatchReply(transport, message, isDatabaseError) ==
    IF message = "timeout"
    THEN Reply(IF transport = "http" THEN "504" ELSE "isError", "Query timed out")
    ELSE Reply(IF transport = "http" THEN "400" ELSE IF isDatabaseError THEN "isError" ELSE "thrown",
               message)

\* The messages of the errors a driver may fail a query with
DriverMessages == {"driver error", "timeout"}

\* What the driver may return: rows, and the affected-row count it reports
DriverAnswers ==
    { [rows |-> [k \in 1..n |-> k], count |-> NoCount] : n \in 0..(MaxRows + 1) }
    \cup { [rows |-> <<>>, count |-> Count(0)], [rows |-> <<>>, count |-> Count(1)],
           [rows |-> <<1>>, count |-> Count(1)] }

\* What the driver may return to the call: tables to listTables, columns to
\* describeTable, rows and a count to the other two
AnswersOf(call, driver) ==
    IF call = "listTables" THEN { [rows |-> l, count |-> NoCount] : l \in TableLists(driver) }
    ELSE IF call = "describeTable" THEN { [rows |-> [k \in 1..n |-> k], count |-> NoCount] : n \in 0..1 }
    ELSE DriverAnswers

\* The audit event of a call the driver answered: the route of
\* db.describe_table logs not_found for a table without columns
AnswerAudit(transport, tool, call, category, rows) ==
    IF call = "describeTable" /\ rows = <<>>
    THEN SettleAudit(transport, tool, category, {"db", "columns", "error"}, "not_found")
    ELSE SettleAudit(transport, tool, category, SuccessKeys(call, category), "")

\* A variant of RaceSettles in which every settlement reaches the handler
RaceSettlesEach(decided) == TRUE

\* Promise.race settles with the first of its promises to settle: a promise
\* that settles after the race is decided does not settle it again
RaceSettles(decided) == ~decided

\* A variant of RejectionHandled in which only the winner is subscribed to
RejectionHandledOfWinner(decided) == ~decided

\* Promise.race subscribes to each of its promises, so that a rejection of
\* the one that lost has a handler
RejectionHandled(decided) == TRUE

\* The driver of the connection string of the call
CallDriver == resolveDatabaseConfig(settings, req.body.db_url).driver

\* await pool.connect() / await pool.getConnection() resolved: the pooled
\* connections the function holds; the sqlite handle is no pooled connection
Borrowed(driver) == IF driver \in {"postgres", "mysql"} THEN 1 ELSE 0

\* A variant of Release without `finally`: the connection is released when
\* the try block returns only
ReleaseOnReturn(held, count, thrown) == IF thrown THEN count ELSE count + held

\* finally { client.release() } / finally { connection.release() }: the count
\* of release() calls after the try block returned or threw, `held` being the
\* connections the function holds
Release(held, count, thrown) == count + held

\* A variant of TimeoutRelease in which the timer gives the connection back
TimeoutReleaseEarly(held, count) == count + held

\* withTimeout knows nothing of the connection: the count of release() calls
\* after the timer fired
TimeoutRelease(held, count) == count

\* pool.connect() / pool.getConnection() / the open of the sqlite file
\* resolves; the function binds the parameters and hands the query to the
\* driver, or throws the DatabaseError of the binder
DriverConnect ==
    /\ pc = "awaiting" /\ op = "connect"
    /\ borrowed' = Borrowed(CallDriver)
    /\ IF pending.ok
       THEN /\ issued' = <<pending.query>>
            /\ op' = "query"
            /\ UNCHANGED <<pc, resp, sent, audit, released>>
       ELSE /\ released' = Release(borrowed', released, TRUE)
            /\ resp' = CatchReply(req.transport, pending.error, TRUE)
            /\ audit' = audit \o SettleAudit(req.transport, req.tool, run.category, {"error"},
                                             pending.error)
            /\ pc' = "replied" /\ op' = "bindFailed" /\ sent' = sent + 1
            /\ UNCHANGED issued
    /\ UNCHANGED <<settings, req, run, pending, crashed, guardVars, dbVars, poolVars, envVars>>

\* pool.connect() / pool.getConnection() / the open of the sqlite file
\* rejects: the error of the driver as it is, which is no DatabaseError
ConnectReject ==
    /\ pc = "awaiting" /\ op = "connect"
    /\ resp' = CatchReply(req.transport, "connect error", FALSE)
    /\ audit' = audit \o SettleAudit(req.transport, req.tool, run.category, {"error"},
                                     "connect error")
    /\ pc' = "replied" /\ op' = "none" /\ sent' = sent + 1
    /\ UNCHANGED <<borrowed, released>>
    /\ UNCHANGED <<settings, req, run, pending, issued, crashed, guardVars, dbVars, poolVars, envVars>>

\* The driver returns rows and a count
DriverResolve ==
    /\ pc = "awaiting" /\ op = "query"
    /\ \E a \in AnswersOf(run.call, CallDriver) :
          /\ resp' = Success(IF req.transport = "http" THEN "200" ELSE "result", run.call,
                             run.category, a.rows, a.count, run.limit)
          /\ audit' = audit \o AnswerAudit(req.transport, req.tool, run.call, run.category, a.rows)
    /\ pc' = "replied" /\ op' = "done" /\ sent' = sent + 1
    /\ released' = Release(borrowed - released, released, FALSE) /\ UNCHANGED borrowed
    /\ UNCHANGED <<settings, req, run, pending, issued, crashed, guardVars, dbVars, poolVars, envVars>>

\* The driver fails: DatabaseError((error as Error).message)
DriverReject ==
    /\ pc = "awaiting" /\ op = "query"
    /\ \E message \in DriverMessages :
          /\ resp' = CatchReply(req.transport, message, TRUE)
          /\ audit' = audit \o SettleAudit(req.transport, req.tool, run.category, {"error"},
                                           message)
    /\ pc' = "replied" /\ op' = "none" /\ sent' = sent + 1
    /\ released' = Release(borrowed - released, released, TRUE) /\ UNCHANGED borrowed
    /\ UNCHANGED <<settings, req, run, pending, issued, crashed, guardVars, dbVars, poolVars, envVars>>

\* The database stops answering: the pool hands out no connection, or the
\* query never returns
DriverStall ==
    /\ pc = "awaiting" /\ op \in {"connect", "query"}
    /\ op' = IF op = "connect" THEN "connectStalled" ELSE "queryStalled"
    /\ UNCHANGED <<settings, req, pc, run, pending, issued, resp, sent, crashed, audit,
                   borrowed, released, guardVars, dbVars, poolVars, envVars>>

\* withTimeout: the timer rejects with Error("timeout") before the database
\* function settles; the function is left running
Timeout ==
    /\ pc = "awaiting"
    /\ TimerArmed(settings.queryTimeoutMs)
    /\ resp' = CatchReply(req.transport, "timeout", FALSE)
    /\ audit' = audit \o SettleAudit(req.transport, req.tool, run.category, {"error"}, "timeout")
    /\ pc' = "replied" /\ sent' = sent + 1
    /\ op' = IF op = "connect" THEN "lateConnect" ELSE IF op = "query" THEN "lateQuery" ELSE op
    /\ released' = TimeoutRelease(borrowed - released, released) /\ UNCHANGED borrowed
    /\ UNCHANGED <<settings, req, run, pending, issued, crashed, guardVars, dbVars, poolVars, envVars>>

\* After the timeout the function gets its connection; it hands the query
\* to the driver, or throws the DatabaseError of the binder: the race is
\* decided already
LateConnect ==
    /\ pc = "replied" /\ op = "lateConnect"
    /\ borrowed' = Borrowed(CallDriver)
    /\ IF pending.ok
       THEN /\ issued' = <<pending.query>>
            /\ op' = "lateQuery"
            /\ UNCHANGED <<resp, sent, crashed, released>>
       ELSE /\ released' = Release(borrowed', released, TRUE)
            /\ op' = "lateBindFailed"
            /\ crashed' = (crashed \/ ~RejectionHandled(TRUE))
            /\ IF RaceSettles(TRUE)
               THEN /\ resp' = CatchReply(req.transport, pending.error, TRUE)
                    /\ sent' = sent + 1
               ELSE UNCHANGED <<resp, sent>>
            /\ UNCHANGED issued
    /\ UNCHANGED <<settings, req, pc, run, pending, audit, guardVars, dbVars, poolVars, envVars>>

\* After the timeout the driver returns: the statement has run (a write is
\* committed); the race is decided already
LateResolve ==
    /\ pc = "replied" /\ op = "lateQuery"
    /\ op' = "committed"
    /\ released' = Release(borrowed - released, released, FALSE) /\ UNCHANGED borrowed
    /\ IF RaceSettles(TRUE)
       THEN /\ \E a \in AnswersOf(run.call, CallDriver) :
                  resp' = Success(IF req.transport = "http" THEN "200" ELSE "result", run.call,
                                  run.category, a.rows, a.count, run.limit)
            /\ sent' = sent + 1
       ELSE UNCHANGED <<resp, sent>>
    /\ UNCHANGED <<settings, req, pc, run, pending, issued, crashed, audit, guardVars, dbVars, poolVars, envVars>>

\* After the timeout the function rejects: no connection, or an error of the
\* driver; the race is decided already
LateReject ==
    /\ pc = "replied"
    /\ op \in {"lateConnect", "lateQuery"}
    /\ op' = "failed"
    /\ released' = Release(borrowed - released, released, TRUE) /\ UNCHANGED borrowed
    /\ crashed' = (crashed \/ ~RejectionHandled(TRUE))
    /\ IF RaceSettles(TRUE)
       THEN /\ resp' = CatchReply(req.transport, "driver error", TRUE)
            /\ sent' = sent + 1
       ELSE UNCHANGED <<resp, sent>>
    /\ UNCHANGED <<settings, req, pc, run, pending, issued, audit, guardVars, dbVars, poolVars, envVars>>

\* The reply is out; the server takes the next call
NextCall ==
    /\ pc = "replied" /\ ~crashed
    /\ req' = NoRequest /\ pc' = "idle" /\ run' = NoRun /\ issued' = <<>> /\ resp' = NoReply
    /\ pending' = NoOut /\ op' = "none" /\ sent' = 0 /\ audit' = <<>>
    /\ borrowed' = 0 /\ released' = 0
    /\ UNCHANGED <<settings, crashed, guardVars, dbVars, poolVars, envVars>>

----------------------------------------------------------------------------
(* The pools as a state machine: calls of the database layer, concurrent or
   one after the other, each of which resolves its connection string, gets the
   pool of its driver and waits for a connection *)

\* The number of calls
MaxCallers == 2

PoolUrls ==
    { Chars("postgres://h/d"), Chars("postgresql://h/d"), Chars("postgresql+asyncpg://h/d"),
      Chars("postgres+asyncpg://h/d"), Chars(" postgres://h/d "), Chars("postgresql://h/e"),
      Chars("sqlite:///./dev.db"), Chars("sqlite+aiosqlite:///./dev.db"), Chars("sqlite://dev.db"),
      Chars("sqlite:///:memory:"), Chars("sqlite://memory"), Chars("sqlite:///a%20b"),
      Chars("sqlite:///%"), Chars("sqlite://"), Chars("sqlite:///"), Chars("sqlite::memory:"),
      Chars("mysql://h/d"), Chars("mariadb://h/d"),
      <<>>, Chars("  "), Chars("ftp://h"), Chars("POSTGRES://h/d"), Chars("mysql+pymysql://h/d") }

NoConfig == UrlThrows("none", "not run")
NoCaller == [pc |-> "idle", url |-> <<>>, config |-> NoConfig, pool |-> 0]

PoolInit ==
    /\ postgresPools = <<>> /\ sqliteDbs = <<>> /\ mysqlPools = <<>>
    /\ created = <<>> /\ settled = <<>>
    /\ callers = [c \in 1..MaxCallers |-> NoCaller]
    /\ GuardIdle /\ DbIdle /\ ServerIdle /\ EnvIdle

\* The outcome of a get: the pool handed out, the Map afterwards, and whether
\* the pool was created by this get
Got(pool, map, isNew) == [pool |-> pool, map |-> map, isNew |-> isNew]

\* A variant of the three gets that looks nothing up
getFreshPool(map, key, fresh) == Got(fresh, (key :> fresh) @@ map, TRUE)

\* getPostgresPool(connectionString): the existing Pool, or new Pool(..) set
\* in the Map; `fresh` is the identity of the object that new would create
getPostgresPool(map, key, fresh) ==
    IF key \in DOMAIN map THEN Got(map[key], map, FALSE)
    ELSE Got(fresh, (key :> fresh) @@ map, TRUE)

\* A variant of getSqliteDatabase that does not set the promise in the Map
\* (as one that set the Database after awaiting it would, for calls that
\* come before the open has settled)
getSqliteDatabaseUnstored(map, key, fresh) ==
    IF key \in DOMAIN map THEN Got(map[key], map, FALSE) ELSE Got(fresh, map, TRUE)

\* getSqliteDatabase(path): the existing promise, or open(..) set in the Map;
\* the function has no await, so that it runs as one step
getSqliteDatabase(map, key, fresh) ==
    IF key \in DOMAIN map THEN Got(map[key], map, FALSE)
    ELSE Got(fresh, (key :> fresh) @@ map, TRUE)

\* getMysqlPool(connectionString): the existing pool, or mysql.createPool(..)
getMysqlPool(map, key, fresh) ==
    IF key \in DOMAIN map THEN Got(map[key], map, FALSE)
    ELSE Got(fresh, (key :> fresh) @@ map, TRUE)

\* A call arrives with a connection string: resolveDatabaseConfig
PStart(c) ==
    /\ callers[c].pc = "idle"
    /\ \E url \in PoolUrls :
          callers' = [callers EXCEPT ![c] =
                        [pc |-> IF normalizeDatabaseUrl(url).ok THEN "resolved" ELSE "failed",
                         url |-> url, config |-> normalizeDatabaseUrl(url), pool |-> 0]]
    /\ UNCHANGED <<postgresPools, sqliteDbs, mysqlPools, created, settled>>
    /\ UNCHANGED <<guardVars, dbVars, serverVars, envVars>>

\* The get of the pool of a driver, by one of the three functions
GetOf(c, got) ==
    /\ callers' = [callers EXCEPT ![c].pc = "connecting", ![c].pool = got.pool]
    /\ created' = IF got.isNew
                  THEN Append(created, [driver |-> callers[c].config.driver,
                                        key |-> callers[c].config.key, pool |-> got.pool])
                  ELSE created
    \* open() has returned a pending promise; a pool is no promise
    /\ settled' = IF got.isNew
                  THEN Append(settled, IF callers[c].config.driver = "sqlite" THEN "pending" ELSE "pool")
                  ELSE settled

\* executeSql up to its first await: the pool of the driver is looked up and
\* created if absent
PGet(c) ==
    /\ callers[c].pc = "resolved"
    /\ LET config == callers[c].config
           fresh == Len(created) + 1
       IN  \/ /\ config.driver = "postgres"
              /\ GetOf(c, getPostgresPool(postgresPools, config.connectionString, fresh))
              /\ postgresPools' = getPostgresPool(postgresPools, config.connectionString, fresh).map
              /\ UNCHANGED <<sqliteDbs, mysqlPools>>
           \/ /\ config.driver = "sqlite"
              /\ GetOf(c, getSqliteDatabase(sqliteDbs, config.key, fresh))
              /\ sqliteDbs' = getSqliteDatabase(sqliteDbs, config.key, fresh).map
              /\ UNCHANGED <<postgresPools, mysqlPools>>
           \/ /\ config.driver = "mysql"
              /\ GetOf(c, getMysqlPool(mysqlPools, config.connectionString, fresh))
              /\ mysqlPools' = getMysqlPool(mysqlPools, config.connectionString, fresh).map
              /\ UNCHANGED <<postgresPools, sqliteDbs>>
    /\ UNCHANGED <<guardVars, dbVars, serverVars, envVars>>

\* The await of a call goes on: pool.connect() / pool.getConnection() settles
\* one way or the other; the promise of the Database, once it has settled,
\* hands every call that awaits it what it settled with
PConnect(c) ==
    /\ callers[c].pc = "connecting"
    /\ \/ /\ callers[c].config.driver # "sqlite"
          /\ \E outcome \in {"connected", "refused"} :
                callers' = [callers EXCEPT ![c].pc = outcome]
       \/ /\ callers[c].config.driver = "sqlite"
          /\ settled[callers[c].pool] # "pending"
          /\ callers' = [callers EXCEPT ![c].pc =
                            IF settled[callers[c].pool] = "fulfilled" THEN "connected" ELSE "refused"]
    /\ UNCHANGED <<postgresPools, sqliteDbs, mysqlPools, created, settled>>
    /\ UNCHANGED <<guardVars, dbVars, serverVars, envVars>>

\* The promise open() returned settles: the file was opened, or it was not
POpen ==
    /\ \E p \in 1..Len(settled) :
          /\ settled[p] = "pending"
          /\ \E outcome \in {"fulfilled", "rejected"} : settled' = [settled EXCEPT ![p] = outcome]
    /\ UNCHANGED <<postgresPools, sqliteDbs, mysqlPools, created, callers>>
    /\ UNCHANGED <<guardVars, dbVars, serverVars, envVars>>

----------------------------------------------------------------------------
(* The guard as a state machine: one call of each exported function *)

GuardInit ==
    /\ \E in \in GuardInputs : gSql = in.sql /\ gTables = in.tables
    /\ gAllow \in GuardAllowlists
    /\ gPc = "input"
    /\ gSingle = NoResult /\ gCategory = "none" /\ gVerdict = NoResult
    /\ gLastIndex = FreshLastIndex
    /\ DbIdle /\ ServerIdle /\ PoolIdle /\ EnvIdle

\* enforceSingleStatement(body.sql)
GEnforce ==
    /\ gPc = "input"
    /\ gSingle' = enforceSingleStatement(gSql)
    /\ gPc' = IF gSingle'.ok THEN "single" ELSE "done"
    /\ UNCHANGED <<gSql, gTables, gAllow, gCategory, gVerdict, gLastIndex>>
    /\ UNCHANGED <<dbVars, serverVars, poolVars, envVars>>

\* classifyStatement(normalizedSql)
GClassify ==
    /\ gPc = "single"
    /\ gCategory' = classifyStatement(gSingle.text)
    /\ gPc' = "classified"
    /\ UNCHANGED <<gSql, gTables, gAllow, gSingle, gVerdict, gLastIndex>>
    /\ UNCHANGED <<dbVars, serverVars, poolVars, envVars>>

\* validateAllowlist(normalizedSql, settings.allowlistTables)
GValidate ==
    /\ gPc = "classified"
    /\ \E r \in {validateAllowlistFrom(gSingle.text, gAllow, gLastIndex)} :
          gVerdict' = r.verdict /\ gLastIndex' = r.lastIndex
    /\ gPc' = "done"
    /\ UNCHANGED <<gSql, gTables, gAllow, gSingle, gCategory>>
    /\ UNCHANGED <<dbVars, serverVars, poolVars, envVars>>

\* The next statement comes in: the module, and with it the regular
\* expressions, stays loaded, and the allowlist of the settings stays what
\* it is
GAgain ==
    /\ gPc = "done"
    /\ \E in \in GuardInputs : gSql' = in.sql /\ gTables' = in.tables
    /\ gPc' = "input"
    /\ gSingle' = NoResult /\ gCategory' = "none" /\ gVerdict' = NoResult
    /\ UNCHANGED <<gAllow, gLastIndex>>
    /\ UNCHANGED <<dbVars, serverVars, poolVars, envVars>>

----------------------------------------------------------------------------
(* The settings as a state machine: process.env, getSettings and its cache *)

MaxGets == 2
DefaultMaxRows == 500

\* A variable of the environment: unset, or set to a text
Unset == [present |-> FALSE, text |-> <<>>]
SetTo(t) == [present |-> TRUE, text |-> Chars(t)]

\* Missing, integers, zero, negatives, fractions on both sides of 1 and of
\* 0.001, padded, empty, non-numeric and infinite values
EnvValues ==
    { Unset, SetTo("500"), SetTo("1"), SetTo("0"), SetTo("-5"), SetTo("0.5"), SetTo("0.0005"),
      SetTo("1.5"), SetTo(" 20 "), SetTo(""), SetTo("abc"), SetTo("Infinity") }

\* A number of JavaScript: finite (units / 10000), infinite (units is the
\* sign) or NaN
NotANumber == [kind |-> "NaN", units |-> 0]
Infinite(sign) == [kind |-> "infinite", units |-> sign]
Finite(units) == [kind |-> "finite", units |-> units]

AllDigits(s) == \A i \in 1..Len(s) : s[i] \in DigitSet

RECURSIVE DigitsValue(_)
DigitsValue(d) ==
    IF d = <<>> THEN 0 ELSE 10 * DigitsValue(SubSeq(d, 1, Len(d) - 1)) + HexValue(d[Len(d)])

\* The value of the decimal literal whole.fraction in units of 1/10000 (the
\* fractions of the inputs have four digits at most)
DecimalUnits(whole, fraction) ==
    LET four == SubSeq(fraction \o Chars("0000"), 1, 4)
    IN  10000 * DigitsValue(whole) + DigitsValue(four)

\* Number(text) on a text of the environment: surrounding white space is
\* dropped, the empty text is 0, a signed decimal literal or Infinity is its
\* value, anything else is NaN (exponents and radix prefixes are not among
\* the inputs)
Number(text) ==
    LET t == Trim(text)
        signed == t # <<>> /\ t[1] \in {"+", "-"}
        sign == IF t # <<>> /\ t[1] = "-" THEN 0 - 1 ELSE 1
        body == IF signed THEN Tail(t) ELSE t
        dots == {i \in 1..Len(body) : body[i] = "."}
        dot == IF dots = {} THEN Len(body) + 1 ELSE CHOOSE i \in dots : \A j \in dots : i <= j
        whole == SubSeq(body, 1, dot - 1)
        fraction == SubSeq(body, dot + 1, Len(body))
    IN  IF t = <<>> THEN Finite(0)
        ELSE IF body = Chars("Infinity") THEN Infinite(sign)
        ELSE IF AllDigits(whole) /\ AllDigits(fraction) /\ Len(whole) + Len(fraction) >= 1
        THEN Finite(sign * DecimalUnits(whole, fraction))
        ELSE NotANumber

\* process.env.X ?? fallback
OrElse(value, fallback) == IF value.present THEN value.text ELSE Chars(fallback)

\* Number.isFinite(x) && x > 0
FinitePositive(x) == x.kind = "finite" /\ x.units > 0

\* The object getSettings builds when nothing is cached (the variables of
\* the environment other than the two limits are unset)
ReadSettings(e) ==
    LET maxRows == Number(OrElse(e.MAX_ROWS, "500"))
        timeoutSec == Number(OrElse(e.QUERY_TIMEOUT_SEC, "20"))
    IN  [dbUrl |-> Chars("sqlite:///./dev.db"),
         maxRows |-> IF FinitePositive(maxRows) THEN maxRows.units \div 10000 ELSE DefaultMaxRows,
         queryTimeoutMs |->
             \* Math.floor(timeoutSec * 1000), with timeoutSec = units / 10000
             IF FinitePositive(timeoutSec) THEN timeoutSec.units \div 10
             ELSE QueryTimeoutMs,
         allowWrites |-> FALSE, allowDdl |-> FALSE, allowlistTables |-> <<>>,
         requireApiKey |-> FALSE]

\* getSettings(): the cached object when there is one
getSettings(cached, e) == IF cached # <<>> THEN cached ELSE ReadSettings(e)

EnvInit ==
    /\ env \in [MAX_ROWS : EnvValues, QUERY_TIMEOUT_SEC : EnvValues]
    /\ cachedSettings = <<>> /\ snapshot = <<>> /\ getCalls = 0
    /\ GuardIdle /\ DbIdle /\ ServerIdle /\ PoolIdle

\* A module of the server calls getSettings()
GetSettings ==
    /\ getCalls < MaxGets
    /\ snapshot' = getSettings(cachedSettings, env)
    /\ cachedSettings' = snapshot'
    /\ getCalls' = getCalls + 1
    /\ UNCHANGED env
    /\ UNCHANGED <<guardVars, dbVars, serverVars, poolVars>>

\* The command line assigns a variable of the environment from --max-rows or
\* --timeout (an option that is given and not empty)
SetEnv ==
    /\ \E name \in {"MAX_ROWS", "QUERY_TIMEOUT_SEC"}, value \in EnvValues \ {Unset, SetTo("")} :
           /\ env[name] # value
           /\ env' = [env EXCEPT ![name] = value]
    /\ UNCHANGED <<cachedSettings, snapshot, getCalls>>
    /\ UNCHANGED <<guardVars, dbVars, serverVars, poolVars>>

vars == <<guardVars, dbVars, serverVars, poolVars, envVars>>

GuardNext == GEnforce \/ GClassify \/ GValidate \/ GAgain

SpecGuard == GuardInit /\ [][GuardNext]_vars

DbNext == DBind \/ DExecute \/ DExplain

SpecDb == DbInit /\ [][DbNext]_vars

Next == HttpExecuteCall \/ HttpExplainCall \/ McpExecuteCall \/ McpExplainCall
            \/ HttpTablesCall \/ HttpDescribeCall \/ McpTablesCall \/ McpDescribeCall
            \/ DriverConnect \/ ConnectReject \/ DriverResolve \/ DriverReject \/ DriverStall
            \/ Timeout \/ LateConnect \/ LateResolve \/ LateReject \/ NextCall

Spec == Init /\ [][Next]_vars

\* The timer of withTimeout is a setTimeout of the event loop of a process
\* that a listening transport keeps alive: once armed it fires unless the
\* race is decided before. Nothing is assumed of the database.
SpecLive == Init /\ [][Next]_vars /\ WF_vars(Timeout)

PoolNext == (\E c \in 1..MaxCallers : PStart(c) \/ PGet(c) \/ PConnect(c)) \/ POpen

SpecPool == PoolInit /\ [][PoolNext]_vars

EnvNext == GetSettings \/ SetEnv

SpecEnv == EnvInit /\ [][EnvNext]_vars


----------------------------------------------------------------------------
(* Claims about the guard *)

\* The allowlist rule as the design states it, for a reference (schema, table,
\* explicit): its exact schema.table is an entry, or its bare table name is an
\* entry and the reference is unqualified or in the default schema.
RulePermits(ref, allowlist) ==
    LET allow == {ToLowerCase(allowlist[i]) : i \in 1..Len(allowlist)}
    IN  \/ (ref.schema \o <<".">> \o ref.table) \in allow
        \/ /\ ref.table \in allow
           /\ (~ref.explicit \/ ref.schema = Chars("public"))

\* The reference (schema, table, explicit) a matched token stands for: its
\* segments as the extractor splits and normalizes them, the table being the last
StructuredRef(rawToken) ==
    LET segments == splitQualifiedIdentifier(rawToken)
        norm == [i \in 1..Len(segments) |-> normalizeIdentifier(segments[i])]
    IN  IF Len(segments) > 1
        THEN [schema |-> Join(SubSeq(norm, 1, Len(norm) - 1), <<".">>), table |-> norm[Len(norm)],
              explicit |-> TRUE]
        ELSE [schema |-> Chars("public"), table |-> norm[1], explicit |-> FALSE]

ExtractedRefs(sql) == {StructuredRef(t) : t \in SeqToSet(ReferenceTokens(sql))}

GuardValidated == gPc = "done" /\ gSingle.ok

\* C1: with a non-empty allowlist, every table named in a table position of a
\* statement validateAllowlist accepts (items of a comma-separated FROM list and
\* backtick- or bracket-quoted names included) is permitted by the allowlist.
C1_NoBypass ==
    (GuardValidated /\ gAllow # <<>> /\ gVerdict.ok)
        => \A t \in gTables : RulePermits(t, gAllow)

\* C6: with a non-empty allowlist and at least one extracted reference,
\* validateAllowlist fails exactly when some extracted reference (schema, table,
\* explicit), the table being the last segment, is not permitted by the rule.
C6_DecisionRule ==
    (GuardValidated /\ gAllow # <<>> /\ gVerdict.sawReference)
        => (~gVerdict.ok <=> \E r \in ExtractedRefs(gSingle.text) : ~RulePermits(r, gAllow))

----------------------------------------------------------------------------
(* Claims about the database layer *)

\* The lexical regions of a statement as its dialect's own lexer reads them
\* (not as the binders do): a label for every character, "normal" outside
\* every string, quoted identifier, comment and dollar-quoted body.
\*   postgres: '...' and "..." with the delimiter doubled, -- and /* */, $tag$
\*   mysql:    '...' and "..." with backslash escapes and the delimiter doubled,
\*             a backtick identifier, #, -- followed by white space, /* */
\*   sqlite:   '...', "..." and a backtick identifier with the delimiter
\*             doubled, [...], -- and /* */
RefStart == [i |-> 1, mode |-> "normal", tag |-> <<>>, labels |-> <<>>]

RefMark(st, n, label, mode) ==
    [st EXCEPT !.i = st.i + n, !.mode = mode, !.labels = st.labels \o [k \in 1..n |-> label]]

RefDelimiter(mode) ==
    IF mode = "sq" THEN "'" ELSE IF mode = "dq" THEN "\"" ELSE IF mode = "bt" THEN Backtick ELSE "]"

RefStep(dialect, sql, st) ==
    LET i == st.i
        char == sql[i]
        next == At(sql, i + 1)
        mode == st.mode
        left == Len(sql) - i + 1
        two == IF left >= 2 THEN 2 ELSE 1
        tag == DollarTagAt(sql, i)
    IN
    IF mode = "line" THEN RefMark(st, 1, "line", IF char = "\n" THEN "normal" ELSE "line")
    ELSE IF mode = "block" THEN
        IF char = "*" /\ next = "/" THEN RefMark(st, 2, "block", "normal")
        ELSE RefMark(st, 1, "block", "block")
    ELSE IF mode = "dollar" THEN
        IF StartsWithAt(sql, i, st.tag) THEN RefMark(st, Len(st.tag), "dollar", "normal")
        ELSE RefMark(st, 1, "dollar", "dollar")
    ELSE IF mode = "br" THEN RefMark(st, 1, "br", IF char = "]" THEN "normal" ELSE "br")
    ELSE IF mode \in {"sq", "dq", "bt"} THEN
        IF dialect = "mysql" /\ mode # "bt" /\ char = "\\" THEN RefMark(st, two, mode, mode)
        ELSE IF char = RefDelimiter(mode) /\ next = RefDelimiter(mode) THEN RefMark(st, 2, mode, mode)
        ELSE RefMark(st, 1, mode, IF char = RefDelimiter(mode) THEN "normal" ELSE mode)
    ELSE IF char = "'" THEN RefMark(st, 1, "sq", "sq")
    ELSE IF char = "\"" THEN RefMark(st, 1, "dq", "dq")
    ELSE IF char = Backtick /\ dialect # "postgres" THEN RefMark(st, 1, "bt", "bt")
    ELSE IF char = "[" /\ dialect = "sqlite" THEN RefMark(st, 1, "br", "br")
    ELSE IF char = "#" /\ dialect = "mysql" THEN RefMark(st, 1, "line", "line")
    ELSE IF char = "-" /\ next = "-" /\ (dialect = "mysql" => (left = 2 \/ IsSpace(At(sql, i + 2))))
        THEN RefMark(st, 2, "line", "line")
    ELSE IF char = "/" /\ next = "*" THEN RefMark(st, 2, "block", "block")
    ELSE IF dialect = "postgres" /\ tag # <<>> THEN [RefMark(st, Len(tag), "dollar", "dollar") EXCEPT !.tag = tag]
    ELSE RefMark(st, 1, "normal", "normal")

RECURSIVE RefRun(_, _, _)
RefRun(dialect, sql, st) ==
    IF st.i > Len(sql) THEN st ELSE RefRun(dialect, sql, RefStep(dialect, sql, st))

Regions(dialect, sql) == RefRun(dialect, sql, RefStart).labels

\* A :name token starts at position i (a ':' of a '::' cast starts none)
PlaceholderAt(sql, i) == sql[i] = ":" /\ At(sql, i - 1) # ":" /\ IsIdentStart(At(sql, i + 1))
PlaceholderName(sql, i) == SubSeq(sql, i + 1, NameEnd(sql, i + 1))

\* Some :name in normal position has no value in the caller's map
HasUnboundPlaceholder(dialect, sql, args) ==
    \E i \in 1..Len(sql) :
        /\ PlaceholderAt(sql, i)
        /\ Regions(dialect, sql)[i] = "normal"
        /\ ~(args.present /\ PlaceholderName(sql, i) \in DOMAIN args.map)

ProtectedRegions == {"sq", "dq", "bt", "br", "line", "block"}

\* C7: a :name placeholder in normal position whose name is no key of the
\* argument map (an empty or absent map included) makes executeSql and
\* explainQuery fail with the missing-parameter error in every dialect, so
\* nothing is sent to the driver.
C7_MissingIsHardError ==
    (dPc = "done" /\ dPath \in {"execute", "explain"}
        /\ HasUnboundPlaceholder(dReq.driver, dReq.sql, dReq.args))
        => (~dOut.ok /\ dOut.error = "Missing value for SQL parameter")

\* C8: no binder reads a ':name' inside a single-quoted string, a quoted
\* identifier of its dialect, a line comment or a block comment as a
\* placeholder: none is rewritten, given a value or reported missing.
C8_ProtectedRegionsUntouched ==
    (dPc = "done" /\ dPath = "bind")
        => \A k \in 1..Len(dBound.hits) :
              Regions(dReq.driver, dReq.sql)[dBound.hits[k]] \notin ProtectedRegions

\* C10 as stated: a ';' that occurs only inside a single-quoted literal does
\* not make enforceSingleStatement fail with the multiple-statements error.
MultipleStatements == "Only single SQL statements are permitted"

\* The trimmed text without its one optional trailing ';'
StatementBody(sql) ==
    IF EndsWith(Trim(sql), <<";">>) THEN SubSeq(Trim(sql), 1, Len(Trim(sql)) - 1) ELSE Trim(sql)

OnlyQuotedSemicolons(sql) ==
    /\ Includes(StatementBody(sql), ";")
    /\ \A i \in 1..Len(StatementBody(sql)) :
          StatementBody(sql)[i] = ";" => InLiteral(StatementBody(sql), i)

\* C10 (as stated): a statement whose only ';' are inside single-quoted
\* literals, such as SELECT ';', is not refused as multiple statements.
C10_QuotedSemicolonAccepted ==
    (gPc # "input" /\ OnlyQuotedSemicolons(gSql)) => gSingle.error # MultipleStatements

\* C10 (amended): enforceSingleStatement fails with the multiple-statements
\* error exactly when a ';' occurs before the last character of the trimmed
\* text, inside a single-quoted literal or not; SELECT ';' is refused.
C10_AnySemicolonRefused ==
    gPc # "input" =>
        (gSingle.error = MultipleStatements
            <=> \E i \in 1..(Len(Trim(gSql)) - 1) : Trim(gSql)[i] = ";")

C10_Witness ==
    /\ gPc = "done" /\ gSql = Chars("SELECT ';'")
    /\ OnlyQuotedSemicolons(gSql)
    /\ ~gSingle.ok /\ gSingle.error = MultipleStatements

----------------------------------------------------------------------------
(* Claims about the server *)

WriteDisabledErrors ==
    { "Write operations require explicit server and request approval",
      "Write operations disabled (set ALLOW_WRITES=true to enable)",
      "Write operation requires allow_write: true in request" }

DdlDisabledErrors ==
    { "DDL statements are disabled", "DDL operations disabled (set ALLOW_DDL=true to enable)" }

\* The call has been refused: an HTTP error status, or an MCP error result
Refused == pc = "replied" /\ resp.status \in {"400", "401", "403", "isError", "thrown"}

NothingIssued == run.call = "none" /\ issued = <<>>

\* C2: in both transports a statement classified as write reaches executeSql
\* only if settings.allowWrites is true and the request carries allow_write =
\* true; otherwise the call fails with a write-disabled error and nothing is
\* issued to the database.
C2_WriteDoubleGate ==
    (pc # "idle" /\ run.category = "write") =>
        /\ run.call = "executeSql" => (settings.allowWrites /\ req.body.allow_write = "true")
        /\ ~(settings.allowWrites /\ req.body.allow_write = "true")
              => (Refused /\ resp.detail \in WriteDisabledErrors /\ NothingIssued)

C2_Witness ==
    /\ run.category = "write" /\ settings.allowWrites /\ req.body.allow_write = "absent"
    /\ Refused /\ resp.detail \in WriteDisabledErrors /\ NothingIssued

\* A query the database executes: a statement sent as it is, or under an
\* EXPLAIN ANALYZE of Postgres or MySQL, which runs the statement it explains
Executed ==
    /\ issued # <<>>
    /\ \/ run.call = "executeSql"
       \/ run.call = "explainQuery" /\ req.body.analyze = "true"
            /\ issued[1].driver \in {"postgres", "mysql"}

\* C3: with allowWrites = false and allowDdl = false no call of any tool has
\* the database execute a statement whose category is write or ddl.
C3_ReadOnlyByDefault ==
    (pc # "idle" /\ ~settings.allowWrites /\ ~settings.allowDdl /\ Executed)
        => classifyStatement(run.single.text) \notin {"write", "ddl"}

\* C4: in both transports a statement classified as ddl reaches executeSql
\* only if settings.allowDdl is true; allow_write neither opens the gate nor
\* is needed to pass it; otherwise the call fails with a DDL-disabled error
\* and nothing is issued to the database.
C4_DdlGate ==
    (pc # "idle" /\ run.category = "ddl") =>
        /\ run.call = "executeSql" => settings.allowDdl
        /\ ~settings.allowDdl => (Refused /\ resp.detail \in DdlDisabledErrors /\ NothingIssued)
        /\ settings.allowDdl => resp.detail \notin (DdlDisabledErrors \cup WriteDisabledErrors)

C4_Witness ==
    /\ run.category = "ddl" /\ settings.allowDdl /\ req.body.allow_write # "true"
    /\ run.call = "executeSql" /\ issued # <<>>

\* C5: every execute or explain call whose preprocessed statement classifies
\* as unknown ends refused, with nothing issued to the database.
C5_UnknownAlwaysRejected ==
    (pc # "idle" /\ run.single.ok /\ classifyStatement(run.single.text) = "unknown")
        => (Refused /\ NothingIssued)

\* C9: a statement that still contains a ';' after its text is trimmed and
\* one trailing ';' removed is refused by enforceSingleStatement with the
\* multiple-statements error, and the server issues nothing for the call.
C9_MultiStatementRejected ==
    (pc # "idle" /\ Includes(StatementBody(req.body.sql), ";")) =>
        /\ ~enforceSingleStatement(req.body.sql).ok
        /\ enforceSingleStatement(req.body.sql).error = MultipleStatements
        /\ run.single # NoResult => run.single.error = MultipleStatements
        /\ Refused /\ NothingIssued

C9_Witness ==
    /\ pc = "replied" /\ req.body.sql = Chars("SELECT 1; DROP TABLE u")
    /\ run.single.error = MultipleStatements
    /\ Refused /\ resp.detail = MultipleStatements /\ NothingIssued

----------------------------------------------------------------------------
(* Claims about the statement preprocessor *)

EmptyStatement == "SQL statement must not be empty"

\* C11: enforceSingleStatement never succeeds with an empty statement: on every
\* input, one made of white space and a single ';' included, it fails or
\* returns a non-empty text.
C11_NeverEmpty ==
    (gPc # "input" /\ gSingle.ok) => gSingle.text # <<>>

\* C12: when enforceSingleStatement succeeds with result r, r is the trimmed
\* body without the trailing ';', r contains no ';', and enforceSingleStatement
\* applied to r succeeds and returns r.
C12_Idempotent ==
    (gPc # "input" /\ gSingle.ok) =>
        /\ gSingle.text = Trim(StatementBody(gSql))
        /\ ~Includes(gSingle.text, ";")
        /\ enforceSingleStatement(gSingle.text).ok
        /\ enforceSingleStatement(gSingle.text).text = gSingle.text

\* The first whitespace-delimited token of a text, upper-cased: the characters
\* of the trimmed text before its first white space
LeadingKeyword(sql) ==
    LET t == Trim(sql)
        stops == {i \in 1..Len(t) : IsSpace(t[i])}
        end == IF stops = {} THEN Len(t) ELSE (CHOOSE i \in stops : \A j \in stops : i <= j) - 1
    IN  ToUpperCase(SubSeq(t, 1, end))

\* The category of a keyword by the three fixed sets
CategoryOf(keyword) ==
    CASE keyword \in {Chars("SELECT"), Chars("WITH")} -> "read"
      [] keyword \in {Chars("INSERT"), Chars("UPDATE"), Chars("DELETE"), Chars("MERGE"),
                      Chars("TRUNCATE")} -> "write"
      [] keyword \in {Chars("CREATE"), Chars("ALTER"), Chars("DROP"), Chars("RENAME"),
                      Chars("REINDEX"), Chars("VACUUM")} -> "ddl"
      [] OTHER -> "unknown"

Classified == gPc \in {"classified", "done"} /\ gSingle.ok

\* C13: classifyStatement returns the category of the upper-cased first
\* whitespace-delimited token by the three keyword sets and unknown for every
\* other token; it returns exactly one of the four categories, and two
\* statements with the same first token get the same category.
C13_FirstTokenOnly ==
    Classified =>
        /\ gCategory = CategoryOf(LeadingKeyword(gSingle.text))
        /\ gCategory \in {"read", "write", "ddl", "unknown"}
        /\ \A in \in GuardInputs :
              LeadingKeyword(in.sql) = LeadingKeyword(gSingle.text)
                  => classifyStatement(in.sql) = gCategory

\* A keyword glued to a following character is classified as unknown
C13_Witness ==
    /\ Classified /\ gSql = Chars("SELECT(1)")
    /\ LeadingKeyword(gSingle.text) = Chars("SELECT(1)")
    /\ gCategory = "unknown"

----------------------------------------------------------------------------
(* Claims about the values the binders emit *)

\* The names of the placeholders the scanner read, in the order of the text
HitNames(sql, hits) == [k \in 1..Len(hits) |-> PlaceholderName(sql, hits[k])]

\* The distinct names of a list, in the order of their first occurrence
RECURSIVE FirstSeen(_)
FirstSeen(names) ==
    IF names = <<>> THEN <<>>
    ELSE LET init == FirstSeen(SubSeq(names, 1, Len(names) - 1))
             last == names[Len(names)]
         IN  IF last \in SeqToSet(init) THEN init ELSE Append(init, last)

\* The text from position i on, with the k-th placeholder the scanner read
\* (the ':' and its name) replaced by repl[k] and everything else kept
RECURSIVE Rewritten(_, _, _, _)
Rewritten(sql, hits, repl, i) ==
    IF i > Len(sql) THEN <<>>
    ELSE IF \E k \in 1..Len(hits) : hits[k] = i
    THEN repl[CHOOSE k \in 1..Len(hits) : hits[k] = i]
            \o Rewritten(sql, hits, repl, NameEnd(sql, i + 1) + 1)
    ELSE <<sql[i]>> \o Rewritten(sql, hits, repl, i + 1)

\* The binder of a dialect has bound a statement with a non-empty argument map
BoundBy(driver) ==
    /\ dPc = "done" /\ dPath = "bind" /\ dReq.driver = driver
    /\ ~ArgsEmpty(dReq.args) /\ dBound.ok

\* C14: bindPostgresParameters emits one value for each distinct placeholder
\* name, in the order of first occurrence; every occurrence of a name is
\* replaced by the same $n; the numbers it emits are exactly 1..|values|, and
\* values[n] is the argument of the name $n stands for.
C14_PostgresReuse ==
    BoundBy("postgres") =>
        LET names == HitNames(dReq.sql, dBound.hits)
            distinct == FirstSeen(names)
            number(k) == IndexOf(distinct, names[k])
        IN  /\ Len(dBound.values) = Len(distinct)
            /\ \A n \in 1..Len(distinct) : dBound.values[n] = ArgValue(dReq.args, distinct[n])
            /\ {number(k) : k \in 1..Len(names)} = 1..Len(dBound.values)
            /\ dBound.text = Rewritten(dReq.sql, dBound.hits,
                                       [k \in 1..Len(names) |-> <<"$">> \o Digits(number(k))], 1)

C14_Witness ==
    /\ BoundBy("postgres") /\ dReq.sql = Chars(":b, :a, :b")
    /\ dBound.text = Chars("$1, $2, $1") /\ dBound.values = <<2, 1>>

\* C15: bindMysqlParameters replaces every placeholder it reads by one '?' and
\* appends its argument to values, a repeated name included: the '?' it emits
\* are as many as the values, and the i-th stands for values[i].
C15_MysqlPositional ==
    BoundBy("mysql") =>
        LET names == HitNames(dReq.sql, dBound.hits)
        IN  /\ Len(dBound.values) = Len(names)
            /\ \A i \in 1..Len(names) : dBound.values[i] = ArgValue(dReq.args, names[i])
            /\ dBound.text = Rewritten(dReq.sql, dBound.hits, [k \in 1..Len(names) |-> <<"?">>], 1)

C15_Witness ==
    /\ BoundBy("mysql") /\ dReq.sql = Chars(":b, :a, :b")
    /\ dBound.text = Chars("?, ?, ?") /\ dBound.values = <<2, 1, 2>>

----------------------------------------------------------------------------
(* Claims about the regions the binders keep *)

\* The states the loop of bindPostgresParameters goes through, the last included
RECURSIVE PgTrace(_, _, _)
PgTrace(sql, args, st) ==
    IF st.failed \/ st.i > Len(sql) THEN <<st>>
    ELSE <<st>> \o PgTrace(sql, args, PgStep(sql, args, st))

\* An opening $tag$ at position i, the tag being letters, digits and '_' (none
\* for $$): the tag with its two '$', <<>> when there is none
TagAt(sql, i) ==
    LET ends == { e \in (i + 1)..Len(sql) :
                    sql[e] = "$" /\ \A m \in (i + 1)..(e - 1) : IsWordChar(sql[m]) }
    IN  IF At(sql, i) = "$" /\ ends # {}
        THEN SubSeq(sql, i, CHOOSE e \in ends : \A f \in ends : e <= f)
        ELSE <<>>

\* The last position of the region that an opening tag at position i starts:
\* the end of the next occurrence of the same tag, or the end of the text
RegionEnd(sql, i, tag) ==
    LET closes == { q \in (i + Len(tag))..Len(sql) : StartsWithAt(sql, q, tag) }
    IN  IF closes = {} THEN Len(sql)
        ELSE (CHOOSE q \in closes : \A r \in closes : q <= r) + Len(tag) - 1

RegionClosed(sql, i, tag) == \E q \in (i + Len(tag))..Len(sql) : StartsWithAt(sql, q, tag)

\* The scanner, in its normal state at position st.i where a $tag$ opens,
\* treats the text up to the closing tag as one region
OneRegion(sql, trace, st) ==
    LET tag == TagAt(sql, st.i)
        end == RegionEnd(sql, st.i, tag)
        last == trace[Len(trace)]
    IN  /\ \A k \in 1..Len(trace) :
              (trace[k].i > st.i /\ trace[k].i <= end)
                  => (trace[k].mode = "dollar" /\ trace[k].tag = tag /\ ~trace[k].failed)
        /\ \E k \in 1..Len(trace) :
              /\ trace[k].i = end + 1
              /\ trace[k].text = st.text \o SubSeq(sql, st.i, end)
              /\ trace[k].values = st.values
              /\ trace[k].mode = (IF RegionClosed(sql, st.i, tag) THEN "normal" ELSE "dollar")
        /\ \A h \in 1..Len(last.hits) : last.hits[h] < st.i \/ last.hits[h] > end

PgScanned ==
    dPc = "done" /\ dPath = "bind" /\ dReq.driver = "postgres" /\ ~ArgsEmpty(dReq.args)

\* C16: once bindPostgresParameters reads an opening $tag$ (the empty tag $$
\* included) in its normal state, it copies every character up to and including
\* the next occurrence of the same tag as it is, rewrites no placeholder there,
\* stays in the dollar-quoted state whatever quote, comment or other tag comes,
\* and is in the normal state right after the closing tag.
C16_DollarQuoteOneRegion ==
    PgScanned =>
        LET trace == PgTrace(dReq.sql, dReq.args, ScanStart)
        IN  \A k \in 1..Len(trace) :
                (trace[k].mode = "normal" /\ ~trace[k].failed /\ TagAt(dReq.sql, trace[k].i) # <<>>)
                    => OneRegion(dReq.sql, trace, trace[k])

\* A body with a quote, a placeholder and another tag, closed by its own tag
C16_Witness ==
    /\ PgScanned /\ dReq.sql = Chars("$t$':a$x$$t$ :a")
    /\ TagAt(dReq.sql, 1) = Chars("$t$") /\ RegionEnd(dReq.sql, 1, Chars("$t$")) = 12
    /\ dBound.ok /\ dBound.text = Chars("$t$':a$x$$t$ $1") /\ dBound.hits = <<14>>

\* The states the loop of bindMysqlParameters goes through, the last included
RECURSIVE MyTrace(_, _, _)
MyTrace(sql, args, st) ==
    IF st.failed \/ st.i > Len(sql) THEN <<st>>
    ELSE <<st>> \o MyTrace(sql, args, MyStep(sql, args, st))

\* MySQL's reading of string literals, from left to right: a quote opens a
\* string; inside it a backslash takes the next character with it (so a quote
\* after an odd run of backslashes stays inside and one after an even run does
\* not), a doubled delimiter stays inside, and any other delimiter closes it
LexStep(sql, st) ==
    LET char == sql[st.i]
        next == At(sql, st.i + 1)
        delimiter == IF st.mode = "sq" THEN "'" ELSE "\""
    IN  IF st.mode = "normal"
        THEN [i |-> st.i + 1, mode |-> IF char = "'" THEN "sq" ELSE IF char = "\"" THEN "dq" ELSE "normal"]
        ELSE IF char = "\\" THEN [i |-> st.i + 2, mode |-> st.mode]
        ELSE IF char = delimiter /\ next = delimiter THEN [i |-> st.i + 2, mode |-> st.mode]
        ELSE [i |-> st.i + 1, mode |-> IF char = delimiter THEN "normal" ELSE st.mode]

RECURSIVE LexTrace(_, _)
LexTrace(sql, st) ==
    IF st.i > Len(sql) THEN <<st>> ELSE <<st>> \o LexTrace(sql, LexStep(sql, st))

\* The state of a scan once it has read the first p characters
ModeAfter(trace, p) ==
    trace[CHOOSE k \in 1..Len(trace) : trace[k].i > p /\ \A j \in 1..(k - 1) : trace[j].i <= p].mode

OverEscapeAlphabet(sql) ==
    \A i \in 1..Len(sql) : sql[i] \in {"'", "\"", "\\", ":"} \/ sql[i] \in LowerSet

\* C17: on every text over quotes, backslashes, colons and letters, the state
\* (in a string or normal) of bindMysqlParameters after each prefix is the
\* state of MySQL's lexer after it, so that a placeholder is rewritten exactly
\* when it stands outside every literal.
C17_BackslashEscapes ==
    (BoundBy("mysql") /\ OverEscapeAlphabet(dReq.sql)) =>
        LET scanned == MyTrace(dReq.sql, dReq.args, ScanStart)
            lexed == LexTrace(dReq.sql, [i |-> 1, mode |-> "normal"])
        IN  /\ \A p \in 0..Len(dReq.sql) : ModeAfter(scanned, p) = ModeAfter(lexed, p)
            /\ \A i \in 1..Len(dReq.sql) :
                  PlaceholderAt(dReq.sql, i) =>
                      ((\E h \in 1..Len(dBound.hits) : dBound.hits[h] = i)
                          <=> ModeAfter(lexed, i - 1) = "normal")

\* The characters only one of the two dialects gives a meaning to
DialectSpecific == {"#", "[", "]", "\\"}

\* C18: on every statement without '#', '[', ']' and backslash and every
\* non-empty argument map, replaceSqliteNamedParameters and bindMysqlParameters
\* fail with the missing-parameter error for the same name, or return the same
\* text and the same values.
C18_SqliteMirrorsMysql ==
    (/\ dPc = "done" /\ dPath = "bind" /\ dReq.driver = "sqlite" /\ ~ArgsEmpty(dReq.args)
     /\ \A i \in 1..Len(dReq.sql) : dReq.sql[i] \notin DialectSpecific)
        => LET mysql == bindMysqlParameters(dReq.sql, dReq.args)
           IN  /\ dBound.ok = mysql.ok
               /\ dBound.missing = mysql.missing
               /\ dBound.text = mysql.text
               /\ dBound.values = mysql.values

----------------------------------------------------------------------------
(* Claims about the row limit *)

Min(a, b) == IF a < b THEN a ELSE b

\* A read that the driver answered
ReadAnswered ==
    /\ pc = "replied" /\ resp.status \in {"200", "result"}
    /\ run.call = "executeSql" /\ run.category = "read"

\* C19: under every driver a read executed with limit L >= 1 over a driver
\* result of n rows replies the first min(n, L) rows in the driver's order, and
\* truncated is true exactly when n > L.
C19_RowLimitTruncation ==
    (ReadAnswered /\ run.limit >= 1) =>
        LET n == Len(resp.fetched)
        IN  /\ Len(resp.rows) = Min(n, run.limit)
            /\ \A k \in 1..Len(resp.rows) : resp.rows[k] = resp.fetched[k]
            /\ resp.truncated <=> n > run.limit

\* Three rows under limit 2: two rows and truncated
C19_Witness ==
    /\ ReadAnswered /\ issued[1].driver = "mysql"
    /\ Len(resp.fetched) = 3 /\ run.limit = 2
    /\ resp.rows = <<1, 2>> /\ resp.truncated

InvalidRowLimitErrors ==
    { "row_limit must be a positive integer", "body/row_limit must be integer",
      "body/row_limit must be >= 1" }

ExecuteCalled == pc # "idle" /\ req.tool \in {"db.execute", "db_execute"}

\* The request carries a row_limit that is no positive integer
NotPositiveInteger(row_limit) == row_limit.present /\ ~(row_limit.integer /\ row_limit.value >= 1)

\* What the handler of the call's transport does with a body
ExecuteOf(transport, s, body) == IF transport = "http" THEN HttpExecute(s, body) ELSE McpExecute(s, body)

----------------------------------------------------------------------------
(* Claims about the shape of a result *)

\* A call of db.execute / db_execute was answered with a result
ExecuteSucceeded ==
    /\ pc = "replied" /\ run.call = "executeSql" /\ resp.status \in {"200", "result"}

\* C21: a successful execute answers {rows, truncated} exactly when the
\* statement's category is read and {rowcount} exactly when it is write or ddl,
\* whatever the driver returned, and the rowcount is the count the driver
\* reported, 0 when it reported none.
C21_ShapeFollowsCategory ==
    ExecuteSucceeded =>
        /\ resp.shape = "rows" <=> run.category = "read"
        /\ resp.shape = "rowcount" <=> run.category \in {"write", "ddl"}
        /\ resp.shape = "rowcount" =>
              resp.rowcount = IF resp.reported.present THEN resp.reported.value ELSE 0

\* A write whose driver returned rows (a RETURNING clause) and no count
\* answers {rowcount: 0}
C21_Witness ==
    /\ ExecuteSucceeded /\ run.category = "write"
    /\ resp.fetched # <<>> /\ ~resp.reported.present
    /\ resp.shape = "rowcount" /\ resp.rowcount = 0

----------------------------------------------------------------------------
(* Claims about the timeout *)

Stalled == op \in {"connectStalled", "queryStalled"}

TimedOut == resp.status \in {"504", "isError"} /\ resp.detail = "Query timed out"

\* C22: under a timeout above 0 no call stays awaiting for ever, and a call
\* whose database step never completes, be it waiting for a connection or
\* inside the query, is answered with the timeout outcome.
C22_TimeoutLiveness ==
    /\ (pc = "awaiting" /\ settings.queryTimeoutMs > 0) ~> (pc = "replied")
    /\ (pc = "awaiting" /\ Stalled /\ settings.queryTimeoutMs > 0)
          ~> (pc = "replied" /\ Stalled /\ TimedOut /\ sent = 1)

\* An MCP call that never got its connection was answered 'Query timed out'
C22_Witness ==
    /\ pc = "replied" /\ op = "connectStalled" /\ req.transport = "mcp"
    /\ resp.status = "isError" /\ resp.detail = "Query timed out"

\* The database function a timed-out call left behind: still running, stalled
\* for good, or settled
LeftRunning == op \in {"lateConnect", "lateQuery", "connectStalled", "queryStalled"}
LeftSettled == op \in {"committed", "failed", "lateBindFailed"}

\* Nothing was in flight: the function itself had failed, with a driver error
\* whose message is 'timeout', which the handlers answer as a timeout
FailedAsTimeout == op = "none"

\* C23: a call answered with the timeout outcome leaves its database function
\* running if it was in flight, and when the function settles later,
\* successfully or not, no second reply is sent and the reply delivered stays
\* what it was.
C23_TimeoutDoesNotCancel ==
    /\ []((pc = "replied" /\ TimedOut) => (LeftRunning \/ LeftSettled \/ FailedAsTimeout))
    /\ [][(pc = "replied" /\ TimedOut /\ pc' = "replied")
            => (sent = 1 /\ sent' = sent /\ resp' = resp /\ audit' = audit)]_vars

\* The caller of a write was told 'Query timed out', and the write committed
\* afterwards
C23_Witness ==
    /\ pc = "replied" /\ TimedOut /\ sent = 1
    /\ run.call = "executeSql" /\ run.category = "write" /\ issued # <<>>
    /\ op = "committed"

----------------------------------------------------------------------------
(* Claims about the order of the stages *)

\* The statement of the call passed the preprocessor and fails the allowlist
FailsAllowlist ==
    /\ run.single.ok
    /\ ~validateAllowlist(run.single.text, settings.allowlistTables).ok

\* The statement of the call fails a category gate of the configuration
FailsGate ==
    LET category == classifyStatement(run.single.text)
    IN  \/ category = "write" /\ ~settings.allowWrites
        \/ category = "ddl" /\ ~settings.allowDdl

\* C24: in both transports db.execute runs the allowlist validator before the
\* category gates: a statement that passed the preprocessor and violates both
\* the allowlist and a category gate fails with the allowlist error, and
\* nothing is issued.
C24_AllowlistBeforeGates ==
    (ExecuteCalled /\ FailsAllowlist /\ FailsGate)
        => (Refused /\ resp.detail = AllowlistMessage /\ NothingIssued)

----------------------------------------------------------------------------
(* Claims about failures *)

\* C25: an HTTP request is answered exactly once, a failure with a status of
\* 400, 401, 403, 404 or 504 and a reason; no error is thrown out of the handler,
\* and none, the late rejection of a database function that lost the race to
\* the timer included, terminates the process.
C25_ErrorsContained ==
    req.transport = "http" =>
        /\ ~crashed
        /\ sent = (IF pc = "replied" THEN 1 ELSE 0)
        /\ (pc = "replied" /\ resp.status # "200")
              => (resp.status \in {"400", "401", "403", "404", "504"} /\ resp.detail # "")

\* A request was answered 504, its database function rejected afterwards,
\* and the server is up with that one reply sent
C25_Witness ==
    /\ req.transport = "http" /\ pc = "replied" /\ resp.status = "504"
    /\ op = "failed" /\ sent = 1 /\ ~crashed

----------------------------------------------------------------------------
(* Claims about the audit trail *)

\* An audit event with the fields of the design: tool, category, duration and
\* either rows / rowcount or error
WellFormedEvent(e) ==
    /\ e.tool = req.tool
    /\ {"category", "duration_ms"} \subseteq e.keys
    /\ ("error" \in e.keys) # ({"rows", "rowcount"} \cap e.keys # {})

\* The call reached its handler: the schema of an HTTP route let it through
Handled ==
    \/ req.transport = "mcp"
    \/ /\ ~SchemaRejects(req.body)
       /\ ~(req.tool = "db.describe_table" /\ ~req.body.table.present)

\* C29: a call that a handler answered, over HTTP or over MCP and on whatever
\* exit path, has logged exactly one audit event, with tool, category,
\* duration and either rows / rowcount or error.
C29_OneAuditEvent ==
    (pc = "replied" /\ Handled) => (Len(audit) = 1 /\ WellFormedEvent(audit[1]))

----------------------------------------------------------------------------
(* Claims about the pools *)

\* The call has got its pool
Holding(c) == callers[c].pc \in {"connecting", "connected", "refused"}

\* Two calls whose connection strings normalize to the same driver and key
SameKey(c, d) ==
    /\ callers[c].config.driver = callers[d].config.driver
    /\ callers[c].config.key = callers[d].config.key

\* C26: whatever the interleaving of the calls, no driver and key has two
\* pools created; a call that holds a pool holds the one created for its key,
\* which exists from the first call that used the key on and not before; and
\* two calls whose URLs normalize to the same key hold the same pool.
C26_OnePoolPerKey ==
    /\ \A i, j \in 1..Len(created) :
          (created[i].driver = created[j].driver /\ created[i].key = created[j].key) => i = j
    /\ \A c \in 1..MaxCallers :
          Holding(c) => \E i \in 1..Len(created) :
                           created[i] = [driver |-> callers[c].config.driver,
                                         key |-> callers[c].config.key, pool |-> callers[c].pool]
    /\ \A i \in 1..Len(created) :
          \E c \in 1..MaxCallers :
              Holding(c) /\ callers[c].config.key = created[i].key
    /\ \A c, d \in 1..MaxCallers :
          (Holding(c) /\ Holding(d) /\ SameKey(c, d)) => callers[c].pool = callers[d].pool

\* Two calls in flight together, one with postgres:// and one with
\* postgresql+asyncpg://, share the one pool that was created
C26_Witness ==
    /\ callers[1].pc = "connecting" /\ callers[1].url = Chars("postgres://h/d")
    /\ callers[2].pc = "connecting" /\ callers[2].url = Chars("postgresql+asyncpg://h/d")
    /\ callers[1].pool = callers[2].pool /\ Len(created) = 1

----------------------------------------------------------------------------
(* Claims about connection strings *)

\* The position of the first "://" of a text, 0 when it has none
SchemeEnd(url) ==
    IF \E i \in 1..Len(url) : StartsWithAt(url, i, Chars("://"))
    THEN CHOOSE i \in 1..Len(url) :
            /\ StartsWithAt(url, i, Chars("://"))
            /\ \A k \in 1..(i - 1) : ~StartsWithAt(url, k, Chars("://"))
    ELSE 0

\* The scheme of a connection string and what follows its "://"
SchemeOf(url) == SubSeq(url, 1, SchemeEnd(url) - 1)
AfterScheme(url) == SubSeq(url, SchemeEnd(url) + 3, Len(url))

PostgresSchemes ==
    { Chars("postgres"), Chars("postgresql"), Chars("postgres+asyncpg"),
      Chars("postgresql+asyncpg") }
SqliteSchemes == { Chars("sqlite"), Chars("sqlite+aiosqlite") }
MysqlSchemes == { Chars("mysql"), Chars("mariadb") }

\* The path of a sqlite connection string: what follows sqlite:// or sqlite:///
SqlitePathText(url) ==
    IF StartsWith(AfterScheme(url), <<"/">>) THEN Tail(AfterScheme(url)) ELSE AfterScheme(url)

\* What the design expects of a trimmed connection string: the driver, or
\* "DatabaseError"
ExpectedDriver(url) ==
    IF SchemeEnd(url) = 0 THEN "DatabaseError"
    ELSE IF SchemeOf(url) \in PostgresSchemes THEN "postgres"
    ELSE IF SchemeOf(url) \in SqliteSchemes
        THEN IF SqlitePathText(url) # <<>> THEN "sqlite" ELSE "DatabaseError"
    ELSE IF SchemeOf(url) \in MysqlSchemes THEN "mysql"
    ELSE "DatabaseError"

\* A call whose connection string was resolved meets the design
Resolved(c) ==
    LET url == Trim(callers[c].url)
        config == callers[c].config
    IN  IF ExpectedDriver(url) = "DatabaseError"
        THEN ~config.ok /\ config.class = "DatabaseError"
        ELSE /\ config.ok /\ config.driver = ExpectedDriver(url)
             /\ config.driver = "postgres"
                   => config.connectionString = Chars("postgresql://") \o AfterScheme(url)
             /\ config.driver = "mysql"
                   => config.connectionString = Chars("mysql://") \o AfterScheme(url)
             /\ config.driver = "sqlite" => config.key # <<>>
             /\ url = Chars("sqlite:///:memory:") => config.key = Chars(":memory:")

\* C30: normalizeDatabaseUrl gives driver postgres with a postgresql://
\* connection string for the four postgres schemes, driver sqlite for
\* sqlite:// and sqlite+aiosqlite:// with a non-empty path, driver mysql with
\* a mysql:// connection string for mysql:// and mariadb://, and fails with a
\* DatabaseError on an empty URL, a sqlite URL without a path and any other
\* scheme.
C30_DriverFromScheme ==
    \A c \in 1..MaxCallers : callers[c].pc # "idle" => Resolved(c)

----------------------------------------------------------------------------
(* Claims about the textual forms of a reference *)

\* The forms of a reference the design takes for one: bare, double-quoted,
\* in another letter case, and unqualified or qualified with public
FormRefs == { r \in TableRefs : r.style \in {"bare", "dq", "upper"} }

SameTable(r1, r2) ==
    Named(r1).schema = Named(r2).schema /\ Named(r1).table = Named(r2).table

\* The verdict of the guard on a statement: the preprocessor, then the allowlist
Verdict(sql, allowlist) ==
    /\ enforceSingleStatement(sql).ok
    /\ validateAllowlist(enforceSingleStatement(sql).text, allowlist).ok

\* C27: a statement and the statement with its reference written in another
\* form of the same (schema, table) get the same verdict of validateAllowlist.
C27_FormsCollapse ==
    GuardValidated =>
        \A t \in Templates : \A r1, r2 \in FormRefs :
            (gSql = Statement(t, r1) /\ SameTable(r1, r2))
                => (gVerdict.ok <=> Verdict(Statement(t, r2), gAllow))

----------------------------------------------------------------------------
(* Claims about the error of the allowlist *)

\* validateAllowlist failed on the statement
AllowlistFailed == GuardValidated /\ gAllow # <<>> /\ ~gVerdict.ok

\* schema.table of a reference
Dotted(ref) == ref.schema \o <<".">> \o ref.table

\* The extracted references the allowlist rule does not permit
FailingRefs == { r \in ExtractedRefs(gSingle.text) : ~RulePermits(r, gAllow) }

\* C28: the error of a failing validateAllowlist lists the lower-case
\* schema.table of every extracted reference the rule does not permit, each
\* once, and of no other.
C28_CompleteDiagnosis ==
    AllowlistFailed =>
        /\ SeqToSet(gVerdict.disallowed) = { Dotted(r) : r \in FailingRefs }
        /\ \A i, j \in 1..Len(gVerdict.disallowed) :
              gVerdict.disallowed[i] = gVerdict.disallowed[j] => i = j
        /\ \A i \in 1..Len(gVerdict.disallowed) :
              ToLowerCase(gVerdict.disallowed[i]) = gVerdict.disallowed[i]

----------------------------------------------------------------------------
(* Claims about the normalization of a matched token *)

\* The number of double quotes of t before position i
RECURSIVE DoubleQuotesBefore(_, _)
DoubleQuotesBefore(t, i) ==
    IF i <= 1 THEN 0 ELSE DoubleQuotesBefore(t, i - 1) + (IF t[i - 1] = "\"" THEN 1 ELSE 0)

\* The '.' characters of t outside double quotes
Separators(t) == { i \in 1..Len(t) : t[i] = "." /\ DoubleQuotesBefore(t, i) % 2 = 0 }

\* The pieces of t between its separators, from position start on
RECURSIVE PiecesFrom(_, _)
PiecesFrom(t, start) ==
    LET later == { i \in Separators(t) : i >= start }
    IN  IF later = {} THEN <<SubSeq(t, start, Len(t))>>
        ELSE LET next == CHOOSE i \in later : \A j \in later : i <= j
             IN  <<SubSeq(t, start, next - 1)>> \o PiecesFrom(t, next + 1)

\* A segment without its enclosing quotes, doubled quotes collapsed, in lower case
Folded(segment) ==
    IF Len(segment) >= 2 /\ Head(segment) = "\"" /\ segment[Len(segment)] = "\""
    THEN ToLowerCase(CollapseQuotes(SubSeq(segment, 2, Len(segment) - 1)))
    ELSE ToLowerCase(segment)

\* The reference a matched token is to yield
MatchRef(t) ==
    LET pieces == PiecesFrom(t, 1)
    IN  IF Len(pieces) = 2
        THEN [schema |-> Folded(pieces[1]), table |-> Folded(pieces[2]), explicit |-> TRUE]
        ELSE [schema |-> Chars("public"), table |-> Folded(pieces[1]), explicit |-> FALSE]

\* The references the matches of the validated statement are to yield
MatchRefs == { MatchRef(t) : t \in SeqToSet(ReferenceTokens(gSingle.text)) }

\* validateAllowlist ran its two scans on the statement
Scanned == GuardValidated /\ gAllow # <<>>

\* C31: every match has one or two segments; the references stored are those of
\* the matches, split on '.' outside double quotes, unquoted and lower-cased,
\* and a reference is stored as explicit exactly when a two-segment match
\* yields it.
C31_MatchNormalized ==
    Scanned =>
        /\ \A t \in SeqToSet(ReferenceTokens(gSingle.text)) : Len(PiecesFrom(t, 1)) \in {1, 2}
        /\ { e.token : e \in SeqToSet(gVerdict.referenced) } = { Dotted(r) : r \in MatchRefs }
        /\ \A e \in SeqToSet(gVerdict.referenced) :
              e.explicit <=> \E r \in MatchRefs : Dotted(r) = e.token /\ r.explicit

----------------------------------------------------------------------------
(* Claims about a binding that fails *)

\* The binder of the call threw its missing-parameter error, before or after
\* the timer fired
BindThrew ==
    /\ op \in {"bindFailed", "lateBindFailed"}
    /\ pending.error = "Missing value for SQL parameter"

\* C32: when the binder throws for a missing parameter, nothing of its text or
\* values is left, no query is handed to the driver, the connection got for
\* the call is released, and a caller that still waits gets the DatabaseError
\* with the missing-parameter message.
C32_BindingAllOrNothing ==
    BindThrew =>
        /\ pending.query.text = <<>> /\ pending.query.values = <<>>
        /\ issued = <<>>
        /\ borrowed = Borrowed(CallDriver) /\ released = borrowed
        /\ op = "bindFailed" =>
              /\ resp.status \in {"400", "isError"}
              /\ resp.detail = "Missing value for SQL parameter"

\* The second placeholder of 'SELECT :a, :b' is missing after :a was
\* rewritten, on a pooled connection
C32_Witness ==
    /\ BindThrew /\ op = "bindFailed"
    /\ req.body.sql = Chars("SELECT :a, :b") /\ pending.param = Chars("b")
    /\ borrowed = 1 /\ released = 1

----------------------------------------------------------------------------
(* Claims about the state of the guard *)

\* C33: after any sequence of validateAllowlist calls, accepted or rejected,
\* the regular expressions of the module are at lastIndex = 0, and the
\* outcome of a call is that of validateAllowlist on its two arguments alone.
C33_NoSharedState ==
    /\ gPc \in {"input", "single", "classified", "done"} => gLastIndex = FreshLastIndex
    /\ GuardValidated => gVerdict = validateAllowlist(gSingle.text, gAllow)

\* A call that matched references and threw has left the expressions at 0
C33_Witness ==
    /\ GuardValidated /\ gAllow # <<>> /\ ~gVerdict.ok
    /\ Len(gVerdict.referenced) = 2
    /\ gLastIndex = FreshLastIndex

----------------------------------------------------------------------------
(* Claims about pooled connections *)

\* The call's query is with the driver, which has not settled
InDriver == op \in {"query", "queryStalled", "lateQuery"}

\* The handler answered with the timeout outcome
AnsweredTimeout == pc = "replied" /\ resp.detail = "Query timed out"

\* C34: a call on Postgres or MySQL gets one connection; the connection is
\* held, not released, as long as the driver has not settled, also after the
\* timeout reply; once the function has ended, by a result, an error of the
\* driver or an error of the binder, before or after a timeout reply, the
\* connection has been released exactly once.
C34_ConnectionsReturned ==
    /\ released <= borrowed /\ borrowed <= 1
    /\ InDriver => (borrowed = Borrowed(CallDriver) /\ released = 0)
    /\ ~InDriver => released = borrowed

\* A call on a pooled connection was answered with the timeout, and its
\* connection was released when the statement ended afterwards
C34_Witness ==
    /\ AnsweredTimeout /\ op = "committed"
    /\ CallDriver \in {"postgres", "mysql"}
    /\ borrowed = 1 /\ released = 1

----------------------------------------------------------------------------
(* Claims about the allowlist check of the metadata tools *)

\* db.describe_table ran ensureTableAllowed on a table name, with or without
\* a schema, under an allowlist that is not empty
DescribeChecked ==
    /\ req.tool \in {"db.describe_table", "db_describe_table"}
    /\ settings.allowlistTables # <<>>
    /\ Truthy(req.body.table) /\ ~Includes(req.body.table.value, ".")
    /\ run.call = "describeTable" \/ resp.detail = "Table not allowlisted"

\* SELECT * FROM s.t, or SELECT * FROM t when no schema is given
SelectFrom(table, schema) ==
    Chars("SELECT * FROM ")
        \o (IF Truthy(schema) THEN schema.value \o <<".">> \o table.value ELSE table.value)

\* C35: db.describe_table passes a table through ensureTableAllowed exactly
\* when validateAllowlist accepts SELECT * FROM that table under the same
\* allowlist, and db.tables lists only tables db.describe_table would pass.
C35_MetadataAgreesWithGuard ==
    /\ DescribeChecked =>
          (run.call = "describeTable"
              <=> validateAllowlist(SelectFrom(req.body.table, req.body.schema),
                                    settings.allowlistTables).ok)
    /\ (resp.shape = "tables" /\ settings.allowlistTables # <<>>) =>
          \A i \in 1..Len(resp.rows) : ensureTableAllowed(settings, resp.rows[i], NoName)

----------------------------------------------------------------------------
(* Claims about the timeout outcome *)

\* The timer of withTimeout fired on the call, before its database function
\* settled
TimerFired ==
    /\ pc = "replied"
    /\ op \in {"lateConnect", "lateQuery", "connectStalled", "queryStalled", "committed", "failed",
               "lateBindFailed"}

\* C36: a call that went to the database is answered with the timeout outcome
\* exactly when the timer fired before the database function settled.
C36_TimeoutOnlyOnTimer ==
    (pc = "replied" /\ run.call # "none") => (resp.detail = "Query timed out" <=> TimerFired)

----------------------------------------------------------------------------
(* Claims about the settings *)

\* row_limit values the handlers let through: left out, or a positive integer
AcceptedRowLimits ==
    { NoLimit } \cup { [present |-> TRUE, value |-> v, integer |-> TRUE] : v \in {1, DefaultMaxRows} }

\* C37: whatever MAX_ROWS and QUERY_TIMEOUT_SEC hold, the settings getSettings
\* returned have maxRows >= 1 and queryTimeoutMs >= 1, so the effective row
\* limit of every accepted call is >= 1 and withTimeout arms its timer; and
\* what a call returns is the cached snapshot
C37_UsableLimits ==
    snapshot # <<>> =>
        /\ snapshot.maxRows >= 1
        /\ snapshot.queryTimeoutMs >= 1
        /\ \A row_limit \in AcceptedRowLimits : EffectiveLimit(snapshot, row_limit) >= 1
        /\ TimerArmed(snapshot.queryTimeoutMs)
        /\ snapshot = cachedSettings

----------------------------------------------------------------------------
(* Claims about what the binders leave alone *)

RECURSIVE DigitRun(_, _)
DigitRun(text, o) == IF At(text, o) \in DigitSet THEN 1 + DigitRun(text, o + 1) ELSE 0

\* The length of the native placeholder of the dialect that stands at
\* position o of a text ($n, or ?), 0 if none stands there
NativeAt(driver, text, o) ==
    IF driver = "postgres"
    THEN IF At(text, o) = "$" /\ DigitRun(text, o + 1) > 0 THEN 1 + DigitRun(text, o + 1) ELSE 0
    ELSE IF At(text, o) = "?" THEN 1 ELSE 0

\* The output of a binder from position o on, with ':name' put back for the
\* native placeholder emitted for each placeholder read (i walks the input
\* along); cut short where no native placeholder stands for one
RECURSIVE SubstituteBack(_, _, _, _, _, _)
SubstituteBack(driver, sql, hits, text, i, o) ==
    IF o > Len(text) THEN <<>>
    ELSE IF \E k \in 1..Len(hits) : hits[k] = i
    THEN IF NativeAt(driver, text, o) = 0 THEN <<>>
         ELSE <<":">> \o PlaceholderName(sql, i)
                 \o SubstituteBack(driver, sql, hits, text,
                                   NameEnd(sql, i + 1) + 1, o + NativeAt(driver, text, o))
    ELSE <<text[o]>> \o SubstituteBack(driver, sql, hits, text, i + 1, o + 1)

Bound == dPc = "done" /\ dPath = "bind"

\* C38: when a binder succeeds, putting ':name' back for each native
\* placeholder it emitted, in order, gives the input statement character for
\* character; a statement in which it read no placeholder comes back as it
\* is with no values; and a key of the argument map that no placeholder uses
\* neither adds a value nor raises an error (the only error names a
\* placeholder that was read and is no key of the map).
C38_OnlyPlaceholdersChange ==
    Bound =>
        /\ dBound.ok =>
              /\ SubstituteBack(dReq.driver, dReq.sql, dBound.hits, dBound.text, 1, 1) = dReq.sql
              /\ dBound.hits = <<>> => (dBound.text = dReq.sql /\ dBound.values = <<>>)
              /\ LET names == HitNames(dReq.sql, dBound.hits)
                     used == IF dReq.driver = "postgres" THEN FirstSeen(names) ELSE names
                 IN  /\ Len(dBound.values) = Len(used)
                     /\ \A n \in 1..Len(used) : dBound.values[n] = ArgValue(dReq.args, used[n])
        /\ ~dBound.ok =>
              /\ dBound.hits # <<>>
              /\ dBound.missing = PlaceholderName(dReq.sql, dBound.hits[Len(dBound.hits)])
              /\ ~HasOwn(dReq.args, dBound.missing)

\* A statement with a cast, a literal '?' and two placeholders, bound under
\* each dialect with a map that has a key of each
C38_Witness ==
    /\ Bound /\ dBound.ok /\ dReq.sql = Chars(":b::int + :a, '?'")
    /\ Len(dBound.hits) = 2 /\ dBound.text # dReq.sql
    /\ SubstituteBack(dReq.driver, dReq.sql, dBound.hits, dBound.text, 1, 1) = dReq.sql

----------------------------------------------------------------------------
(* Claims about the registry of SQLite databases *)

\* The call is one of the SQLite driver that has called getSqliteDatabase
SqliteCall(c) == Holding(c) /\ callers[c].config.driver = "sqlite"

\* The opens attempted for a path
OpensOf(path) == { p \in 1..Len(created) : created[p].driver = "sqlite" /\ created[p].key = path }

\* Every call holds the one promise of its path, which the registry holds
\* from before it settles, and gets what that promise settled with
OneOpenPerPath ==
    /\ \A c \in 1..MaxCallers :
          SqliteCall(c) =>
              /\ Cardinality(OpensOf(callers[c].config.key)) = 1
              /\ callers[c].config.key \in DOMAIN sqliteDbs
              /\ sqliteDbs[callers[c].config.key] = callers[c].pool
              /\ callers[c].pool \in OpensOf(callers[c].config.key)
              /\ callers[c].pc = "refused" => settled[callers[c].pool] = "rejected"
              /\ callers[c].pc = "connected" => settled[callers[c].pool] = "fulfilled"
    /\ \A path \in DOMAIN sqliteDbs : Cardinality(OpensOf(path)) = 1

\* A step neither removes nor replaces a promise of the registry, nor lets a
\* settled promise settle again
RegistryKept ==
    /\ \A path \in DOMAIN sqliteDbs :
          path \in DOMAIN sqliteDbs' /\ sqliteDbs'[path] = sqliteDbs[path]
    /\ \A p \in 1..Len(settled) :
          settled[p] \in {"fulfilled", "rejected"} => settled'[p] = settled[p]

\* C39: getSqliteDatabase sets the pending promise of open() in the registry
\* before it settles, so that the calls for one path, concurrent or one after
\* the other, share a single open; the promise is never replaced or removed;
\* and after an open that failed every later call for the path gets that
\* failure and no new open is attempted.
C39_OpenOncePerPath == []OneOpenPerPath /\ [][RegistryKept]_vars

\* The open of a path failed; a call that came for the same path afterwards,
\* written another way, was refused by the same promise, the only one opened
C39_Witness ==
    /\ callers[1].pc = "refused" /\ callers[1].url = Chars("sqlite:///./dev.db")
    /\ callers[2].pc = "refused" /\ callers[2].url = Chars("sqlite+aiosqlite:///./dev.db")
    /\ callers[1].pool = callers[2].pool
    /\ Len(created) = 1 /\ settled = <<"rejected">>

====
